---- MODULE Spec2Model ----
(***************************************************************************)
(* Tournament clustering and statistics aggregation engine of              *)
(* rivals_stats (src/final.py, src/marvel_rivals_dashboard.py).            *)
(*                                                                         *)
(* Times are in hours, durations in seconds.  Python floats are modelled   *)
(* as exact rationals [num, den] in lowest terms (den > 0): the model      *)
(* abstracts IEEE rounding and nothing else of the arithmetic.             *)
(***************************************************************************)
EXTENDS Integers, Sequences, FiniteSets, TLC

VARIABLES
    pc,                 \* which call is running and where it stands
    data,               \* the input feed: [ign, matches]
    tournaments_cluster,\* result of cluster_tournament_matches(data)
    value,              \* calculate_per_10: argument value
    duration_seconds,   \* calculate_per_10: argument duration_seconds
    rate,               \* calculate_per_10: returned rate
    match_data,         \* extract_player_stats: the detailed match record
    team_stats,         \* extract_player_stats: first returned list
    opponent_stats,     \* extract_player_stats: second returned list
    implementation,     \* which source file runs: "final" or "dashboard"
    detailed,           \* analyze_tournaments: argument detailed
    cache_dir,          \* analyze_tournaments: whether cache_dir is given
    cache,              \* the cache files: match id -> record (NoRecord: no file)
    player_team,        \* analyze_tournaments: the reference team id
    driver,             \* the browser driver: "none", "open" or "quit"
    error,              \* the exception being propagated, "none" if none
    idx,                \* position of the current tournament (1-based)
    mpos,               \* position of the current match in its tournament
    detailed_match,     \* the detailed record resolved for the current match
    fetch_log,          \* ids passed to fetch_detailed_match_data, in call order
    tournament_info,    \* the aggregate of the current tournament
    tournament_results, \* the aggregates of the finished tournaments
    driver_log,         \* the drivers created and quit by the running call
    run,                \* 1 in the first run over the feed, 2 in the second
    fetched             \* [run, match_id] of every fetch that gave a record

\* The variables of the pure calls.
call_vars == <<value, duration_seconds, rate, match_data>>

\* The variables of analyze_tournaments.
run_vars == <<implementation, detailed, cache_dir, cache, player_team, driver, error, idx, mpos,
              detailed_match, fetch_log, tournament_info, tournament_results>>

\* What is kept about the calls made so far.
caller_vars == <<driver_log, run, fetched>>

vars == <<pc, data, tournaments_cluster, team_stats, opponent_stats,
          call_vars, run_vars, caller_vars>>

(***************************************************************************)
(* Bounds of the model.                                                    *)
(***************************************************************************)
MaxMatches == 3
MaxTick == 4
MaxValue == 12
MaxDurTick == 6
MaxSegs == 3
MaxFeed == 2

\* Python's None where an integer may stand (a team id, a stat value): team
\* ids and stat values of the feed are >= 0.
None == 0 - 1

\* Python's None where a record may stand.
NoRecord == [absent |-> TRUE]

\* timedelta(days=1), in hours.
DayHours == 24

(***************************************************************************)
(* Exact rationals standing for Python floats.                             *)
(***************************************************************************)
Abs(n) == IF n < 0 THEN 0 - n ELSE n

RECURSIVE Gcd(_, _)
Gcd(a, b) == IF b = 0 THEN a ELSE Gcd(b, a % b)

\* n/d in lowest terms with a positive denominator (d # 0).
Rat(n, d) ==
    LET s == IF d < 0 THEN 0 - 1 ELSE 1
        g == Gcd(Abs(n), Abs(d))
    IN  [num |-> (s * n) \div g, den |-> (s * d) \div g]

RInt(n) == [num |-> n, den |-> 1]
RAdd(a, b) == Rat(a.num * b.den + b.num * a.den, a.den * b.den)
RMul(a, b) == Rat(a.num * b.num, a.den * b.den)
RDiv(a, b) == Rat(a.num * b.den, a.den * b.num)
RPos(a) == a.num > 0

(***************************************************************************)
(* The input feed.  A raw match of the feed carries its mode, its          *)
(* timestamp as written (local hour and UTC offset) and its duration.      *)
(***************************************************************************)
\* A timestamp of the feed is [hour, zone]: the local hour as written and the
\* zone suffix, "Z" or "+12:00".
\* datetime.fromisoformat(ts.replace('Z', '+00:00')): an aware datetime, its
\* local hour and its UTC offset in hours.
fromisoformat(ts) ==
    [hour |-> ts.hour, utcoffset |-> IF ts.zone \in {"Z", "+00:00"} THEN 0 ELSE 12]

\* Aware datetimes are ordered and subtracted by their UTC instant.
Instant(t) == t.hour - t.utcoffset

\* dict.get(key, default) on a function standing for a dict.
Get(d, k, default) == IF k \in DOMAIN d THEN d[k] ELSE default

\* The parsed form of one raw match (the dict appended by the first loop).
ParseMatch(match) ==
    [match_id     |-> match.id,
     timestamp    |-> fromisoformat(match.timestamp),
     map_name     |-> match.mapName,
     map_mode     |-> match.mapModeName,
     duration     |-> match.duration,
     winning_team |-> match.winningTeamId,
     scores       |-> match.scores,
     segments     |-> match.segments]

\* A first loop that forgets the mode test.
ParseMatchesAnyMode(ms) == [i \in DOMAIN ms |-> ParseMatch(ms[i])]

\* The tournament-mode matches of the feed, in feed order (the first loop).
RECURSIVE ParseMatches(_)
ParseMatches(ms) ==
    IF ms = <<>> THEN <<>>
    ELSE LET match == Head(ms)
             rest == ParseMatches(Tail(ms))
         IN  IF match.mode = "tournament"
             THEN <<ParseMatch(match)>> \o rest
             ELSE rest

\* list.sort(key=timestamp) is stable: an element goes after every element
\* already placed whose key is <= its own.
RECURSIVE InsertUnstable(_, _)
InsertUnstable(m, s) ==
    IF s = <<>> THEN <<m>>
    ELSE IF Instant(Head(s).timestamp) < Instant(m.timestamp)
         THEN <<Head(s)>> \o InsertUnstable(m, Tail(s))
         ELSE <<m>> \o s

RECURSIVE Insert(_, _)
Insert(m, s) ==
    IF s = <<>> THEN <<m>>
    ELSE IF Instant(Head(s).timestamp) <= Instant(m.timestamp)
         THEN <<Head(s)>> \o Insert(m, Tail(s))
         ELSE <<m>> \o s

RECURSIVE SortFrom(_, _)
SortFrom(done, todo) ==
    IF todo = <<>> THEN done
    ELSE SortFrom(Insert(Head(todo), done), Tail(todo))

SortByTimestamp(ms) == SortFrom(<<>>, ms)

\* Whether the scan keeps `match` in the current cluster, whose last member
\* is `last`.
SameTournamentStrict(last, match) ==
    Instant(match.timestamp) - Instant(last.timestamp) < DayHours

SameTournament(last, match) ==
    Instant(match.timestamp) - Instant(last.timestamp) <= DayHours

\* A scan that appends the open cluster at the end without testing it.
RECURSIVE ScanAlwaysAppend(_, _, _)
ScanAlwaysAppend(tournaments, current, ms) ==
    IF ms = <<>>
    THEN Append(tournaments, current)
    ELSE LET match == Head(ms)
         IN  IF current = <<>>
             THEN ScanAlwaysAppend(tournaments, <<match>>, Tail(ms))
             ELSE IF Instant(match.timestamp)
                        - Instant(current[Len(current)].timestamp) <= DayHours
                  THEN ScanAlwaysAppend(tournaments, Append(current, match), Tail(ms))
                  ELSE ScanAlwaysAppend(Append(tournaments, current), <<match>>, Tail(ms))

\* The scan: `tournaments` are the closed clusters, `current` the open one.
RECURSIVE Scan(_, _, _)
Scan(tournaments, current, ms) ==
    IF ms = <<>>
    THEN IF current # <<>> THEN Append(tournaments, current) ELSE tournaments
    ELSE LET match == Head(ms)
         IN  IF current = <<>>
             THEN Scan(tournaments, <<match>>, Tail(ms))
             ELSE IF SameTournament(current[Len(current)], match)
                  THEN Scan(tournaments, Append(current, match), Tail(ms))
                  ELSE Scan(Append(tournaments, current), <<match>>, Tail(ms))

cluster_tournament_matches(d) ==
    Scan(<<>>, <<>>, SortByTimestamp(ParseMatches(d.matches)))

(***************************************************************************)
(* calculate_per_10.                                                       *)
(***************************************************************************)
\* A rate computed per minute instead of per 10 minutes.
calculate_per_minute(v, d) ==
    LET minutes == Rat(d, 60)
    IN  IF RPos(minutes) THEN RDiv(RInt(v), minutes) ELSE RInt(0)

calculate_per_10(v, d) ==
    LET minutes == Rat(d, 60)
    IN  IF RPos(minutes) THEN RMul(RDiv(RInt(v), minutes), RInt(10)) ELSE RInt(0)

(***************************************************************************)
(* extract_player_stats.  A segment of a detailed record is                *)
(* [type, handle, teamId, result, heroes, isMvp, isSvp, stats]; teamId is  *)
(* None when the key is absent; stats maps the stat names present to their *)
(* value, None standing for an entry without 'value'.                      *)
(***************************************************************************)
StatKeys ==
    {"kills", "deaths", "assists", "kdRatio", "kdaRatio",
     "totalHeroDamage", "totalHeroHeal", "totalDamageTaken",
     "lastKills", "soloKills", "headKills", "sessionSurvivalKills",
     "maxContinueKills", "mainAttacks", "mainAttackHits",
     "continueKills3", "shieldHits", "chaosHits", "summonerHits"}

EmptyDict == [k \in {} |-> 0]

\* stats[key].get('value', 0)
StatValue(entry) == IF entry = None THEN 0 ELSE entry

\* [h['name'] for h in heroes] or ["Unknown"]
HeroNames(heroes) == IF heroes = <<>> THEN <<"Unknown">> ELSE heroes

\* An accuracy that divides without testing the attempts.
AccuracyOfHits(info) ==
    IF Get(info, "mainAttacks", 0) # 0
    THEN RMul(Rat(Get(info, "mainAttackHits", 0), Get(info, "mainAttacks", 0)),
              RInt(100))
    ELSE RInt(Get(info, "mainAttackHits", 0))

Accuracy(info) ==
    IF Get(info, "mainAttacks", 0) > 0
    THEN RMul(Rat(Get(info, "mainAttackHits", 0), Get(info, "mainAttacks", 0)),
              RInt(100))
    ELSE RInt(0)

\* The per-10-minute entries, set only when the match duration is not 0.
Per10Fields(info, match_duration) ==
    IF match_duration # 0
    THEN [kills_per_10        |-> calculate_per_10(Get(info, "kills", 0), match_duration),
          deaths_per_10       |-> calculate_per_10(Get(info, "deaths", 0), match_duration),
          assists_per_10      |-> calculate_per_10(Get(info, "assists", 0), match_duration),
          damage_per_10       |-> calculate_per_10(Get(info, "totalHeroDamage", 0), match_duration),
          healing_per_10      |-> calculate_per_10(Get(info, "totalHeroHeal", 0), match_duration),
          damage_taken_per_10 |-> calculate_per_10(Get(info, "totalDamageTaken", 0), match_duration),
          soloKills_per_10    |-> calculate_per_10(Get(info, "soloKills", 0), match_duration)]
    ELSE EmptyDict

\* player_info of one player segment, before the kill-participation pass.
PlayerInfo(segment, match_duration) ==
    LET base == [name    |-> segment.handle,
                 team_id |-> segment.teamId,
                 result  |-> segment.result,
                 heroes  |-> HeroNames(segment.heroes),
                 is_mvp  |-> segment.isMvp,
                 is_svp  |-> segment.isSvp]
        copied == [k \in StatKeys \cap DOMAIN segment.stats |->
                      StatValue(segment.stats[k])]
        info == base @@ copied
        rates == Per10Fields(info, match_duration)
    IN  [accuracy |-> Accuracy(info), kill_participation |-> RInt(0)]
            @@ rates @@ info

\* A search of the reference team that forgets to test the segment type.
RECURSIVE MainTeamAnyType(_, _)
MainTeamAnyType(segments, player_ign) ==
    IF segments = <<>> THEN None
    ELSE IF Head(segments).handle = player_ign
         THEN Head(segments).teamId
         ELSE MainTeamAnyType(Tail(segments), player_ign)

\* The team id of the first player segment carrying the handle (None when
\* there is none, or when that segment has no team id).
RECURSIVE MainTeam(_, _)
MainTeam(segments, player_ign) ==
    IF segments = <<>> THEN None
    ELSE IF Head(segments).type = "player" /\ Head(segments).handle = player_ign
         THEN Head(segments).teamId
         ELSE MainTeam(Tail(segments), player_ign)

\* A team test that forgets that main_team may be None.
IsTeamSideUnguarded(main_team, team_id) == team_id = main_team

IsTeamSide(main_team, team_id) == main_team # None /\ team_id = main_team

RECURSIVE SelectSeq2(_, _, _)
SelectSeq2(s, main_team, side) ==
    IF s = <<>> THEN <<>>
    ELSE IF IsTeamSide(main_team, Head(s).team_id) = side
         THEN <<Head(s)>> \o SelectSeq2(Tail(s), main_team, side)
         ELSE SelectSeq2(Tail(s), main_team, side)

RECURSIVE SumKills(_)
SumKills(group) ==
    IF group = <<>> THEN 0
    ELSE Get(Head(group), "kills", 0) + SumKills(Tail(group))

\* A pass that counts the kills and forgets the assists.
KillParticipationKillsOnly(group) ==
    LET total_kills == SumKills(group)
    IN  IF total_kills # 0
        THEN [i \in DOMAIN group |->
                [group[i] EXCEPT !.kill_participation =
                    RMul(Rat(Get(group[i], "kills", 0), total_kills), RInt(100))]]
        ELSE group

\* The kill-participation pass over one group.
KillParticipation(group) ==
    LET total_kills == SumKills(group)
    IN  IF total_kills # 0
        THEN [i \in DOMAIN group |->
                [group[i] EXCEPT !.kill_participation =
                    RMul(Rat(Get(group[i], "kills", 0) + Get(group[i], "assists", 0),
                             total_kills), RInt(100))]]
        ELSE group

extract_player_stats(md, player_ign) ==
    LET match_duration == md.duration
        main_team == MainTeam(md.segments, player_ign)
        players == SelectSeq(md.segments, LAMBDA seg : seg.type = "player")
        infos == [i \in DOMAIN players |-> PlayerInfo(players[i], match_duration)]
    IN  [team |-> KillParticipation(SelectSeq2(infos, main_team, TRUE)),
         opp  |-> KillParticipation(SelectSeq2(infos, main_team, FALSE))]

(***************************************************************************)
(* analyze_tournaments: the operators of its steps.                        *)
(***************************************************************************)
\* A scan of one match that forgets to test the segment type.
RECURSIVE FirstSegmentTeam(_, _)
FirstSegmentTeam(segments, player_ign) ==
    IF segments = <<>> THEN None
    ELSE IF Head(segments).handle = player_ign
         THEN Head(segments).teamId
         ELSE FirstSegmentTeam(Tail(segments), player_ign)

\* Team id of the first overview segment of one match that carries the
\* handle (the inner loop and its break); None when there is none or when
\* that segment has no team id.
RECURSIVE FirstOverviewTeam(_, _)
FirstOverviewTeam(segments, player_ign) ==
    IF segments = <<>> THEN None
    ELSE IF Head(segments).type = "overview" /\ Head(segments).handle = player_ign
         THEN Head(segments).teamId
         ELSE FirstOverviewTeam(Tail(segments), player_ign)

\* The reference team id: the scan over all matches of the feed, ended by
\* the first match that gives a team id.
RECURSIVE PlayerTeam(_, _)
PlayerTeam(matches, player_ign) ==
    IF matches = <<>> THEN None
    ELSE LET t == FirstOverviewTeam(Head(matches).segments, player_ign)
         IN  IF t # None THEN t ELSE PlayerTeam(Tail(matches), player_ign)

\* The keys the first loop of cluster_tournament_matches indexes in a
\* tournament-mode match of the feed.
RequiredKeys ==
    {"id", "timestamp", "mapName", "mapModeName", "duration", "winningTeamId",
     "scores"}

\* Whether parsing the raw match raises KeyError.
ParseRaises(match) == ~(RequiredKeys \subseteq DOMAIN match)

\* A clustering that leaves out the matches it cannot parse.
ClusterOutcomeSkipping(d) ==
    [raised |-> FALSE,
     tournaments |->
        cluster_tournament_matches(
           [d EXCEPT !.matches =
               SelectSeq(@, LAMBDA match : ~ParseRaises(match))])]

\* What the call cluster_tournament_matches(data) of the run gives: KeyError
\* when a tournament-mode match lacks a required key, the clusters otherwise.
ClusterOutcome(d) ==
    IF \E i \in DOMAIN d.matches :
          d.matches[i].mode = "tournament" /\ ParseRaises(d.matches[i])
    THEN [raised |-> TRUE, tournaments |-> <<>>]
    ELSE [raised |-> FALSE, tournaments |-> cluster_tournament_matches(d)]

\* Truth value of a resolved record (None is false).
Truthy(record) == record # NoRecord

\* The record a player gets on first sight in a tournament.
NewPlayerStats ==
    [matches_played |-> 0, wins |-> 0, losses |-> 0, heroes_played |-> {},
     total_kills |-> 0, total_last_kills |-> 0, total_deaths |-> 0,
     total_assists |-> 0, total_damage |-> 0, total_healing |-> 0,
     total_damage_taken |-> 0, total_solo_kills |-> 0, total_head_kills |-> 0,
     total_shield_hits |-> 0, total_kill_participation |-> RInt(0),
     total_minutes |-> RInt(0), avg_kda |-> RInt(0), best_kda |-> 0,
     best_hero |-> "None", match_performances |-> <<>>]

\* An aggregate numbered from 0 that takes both dates from the first match.
NewTournamentInfoFromFirst(i, tournament) ==
    [id |-> i - 1,
     start_date |-> tournament[1].timestamp,
     end_date |-> tournament[1].timestamp,
     match_count |-> Len(tournament),
     matches |-> <<>>,
     player_stats |-> EmptyDict]

NewTournamentInfo(i, tournament) ==
    [id |-> i,
     start_date |-> tournament[1].timestamp,
     end_date |-> tournament[Len(tournament)].timestamp,
     match_count |-> Len(tournament),
     matches |-> <<>>,
     player_stats |-> EmptyDict]

\* The stats an overview segment must carry for the fallback to read it.
FallbackKeys == {"kills", "deaths", "assists", "kdaRatio", "totalHeroDamage"}

OverviewSegments(match) ==
    SelectSeq(match.segments, LAMBDA seg : seg.type = "overview")

\* segment['stats'][key]['value'] raises KeyError on an absent key or value.
FallbackRaises(match) ==
    \E i \in DOMAIN match.segments :
       /\ match.segments[i].type = "overview"
       /\ \E k \in FallbackKeys :
             \/ k \notin DOMAIN match.segments[i].stats
             \/ match.segments[i].stats[k] = None

FallbackInfo(segment) ==
    [name |-> segment.handle,
     team_id |-> segment.teamId,
     result |-> segment.result,
     heroes |-> HeroNames(segment.heroes),
     kills |-> segment.stats.kills,
     deaths |-> segment.stats.deaths,
     assists |-> segment.stats.assists,
     kdaRatio |-> segment.stats.kdaRatio,
     totalHeroDamage |-> segment.stats.totalHeroDamage,
     totalHeroHeal |-> StatValue(Get(segment.stats, "totalHeroHeal", None))]

\* A fallback that takes as team side the side the handle `ign` is on in
\* this very match.
FallbackBySideInMatch(match, team) ==
    LET segs == OverviewSegments(match)
        infos == [i \in DOMAIN segs |-> FallbackInfo(segs[i])]
        mine == {i \in DOMAIN segs : segs[i].handle = "me"}
        side == IF mine = {} THEN team
                ELSE segs[CHOOSE i \in mine : \A j \in mine : i <= j].teamId
    IN  [team |-> SelectSeq(infos, LAMBDA info : info.team_id = side),
         opp  |-> SelectSeq(infos, LAMBDA info : info.team_id # side)]

\* The fallback extraction from the overview segments of the match summary.
Fallback(match, team) ==
    LET segs == OverviewSegments(match)
        infos == [i \in DOMAIN segs |-> FallbackInfo(segs[i])]
    IN  [team |-> SelectSeq(infos, LAMBDA info : info.team_id = team),
         opp  |-> SelectSeq(infos, LAMBDA info : info.team_id # team)]

\* player.get('heroes', ["Unknown"])[0]
FirstHero(player) == Get(player, "heroes", <<"Unknown">>)[1]

\* The snapshot appended to a player's match_performances.
Performance(player, match_id, duration_sec) ==
    [match_id |-> match_id,
     hero |-> FirstHero(player),
     result |-> player.result,
     kills |-> Get(player, "kills", 0),
     deaths |-> Get(player, "deaths", 0),
     assists |-> Get(player, "assists", 0),
     kda |-> Get(player, "kdaRatio", 0),
     damage_per_10 |-> calculate_per_10(Get(player, "totalHeroDamage", 0), duration_sec),
     healing_per_10 |-> calculate_per_10(Get(player, "totalHeroHeal", 0), duration_sec),
     kills_per_10 |-> calculate_per_10(Get(player, "kills", 0), duration_sec),
     deaths_per_10 |-> calculate_per_10(Get(player, "deaths", 0), duration_sec),
     assists_per_10 |-> calculate_per_10(Get(player, "assists", 0), duration_sec),
     kill_participation |-> Get(player, "kill_participation", RInt(0)),
     accuracy |-> Get(player, "accuracy", RInt(0)),
     solo_kills |-> Get(player, "soloKills", 0),
     soloKills_per_10 |-> calculate_per_10(Get(player, "soloKills", 0), duration_sec),
     last_kills |-> Get(player, "lastKills", 0),
     fb_per_10 |-> calculate_per_10(Get(player, "lastKills", 0), duration_sec),
     head_kills |-> Get(player, "headKills", 0),
     is_mvp |-> Get(player, "is_mvp", 0),
     is_svp |-> Get(player, "is_svp", 0)]

\* A comparison that also replaces the stored best on a tie.
IsBestOrTie(kda, best_kda) == kda >= best_kda

\* kda > stats['best_kda']
IsNewBest(kda, best_kda) == kda > best_kda

\* A count of losses that takes only the result 'loss'.
CountsAsLossStrict(result) == result = "loss"

\* The else branch of `if player['result'] == 'win'`.
CountsAsLoss(result) == result # "win"

\* A union that takes only the first hero of the player.
PlayedHeroesFirstOnly(player) == {player.heroes[1]}

\* for hero in player.get('heroes', []): the heroes added to heroes_played.
PlayedHeroes(player) == {player.heroes[i] : i \in DOMAIN player.heroes}

\* One team-side player of one match folded into the player's record.
FoldPlayer(stats, player, match_id, duration_sec) ==
    LET kda == Get(player, "kdaRatio", 0)
        better == IsNewBest(kda, stats.best_kda)
    IN  [stats EXCEPT
           !.matches_played = @ + 1,
           !.total_minutes = RAdd(@, Rat(duration_sec, 60)),
           !.wins = IF player.result = "win" THEN @ + 1 ELSE @,
           !.losses = IF CountsAsLoss(player.result) THEN @ + 1 ELSE @,
           !.heroes_played = @ \cup PlayedHeroes(player),
           !.total_kills = @ + Get(player, "kills", 0),
           !.total_deaths = @ + Get(player, "deaths", 0),
           !.total_assists = @ + Get(player, "assists", 0),
           !.total_damage = @ + Get(player, "totalHeroDamage", 0),
           !.total_healing = @ + Get(player, "totalHeroHeal", 0),
           !.total_damage_taken = @ + Get(player, "totalDamageTaken", 0),
           !.total_solo_kills = @ + Get(player, "soloKills", 0),
           !.total_last_kills = @ + Get(player, "lastKills", 0),
           !.total_head_kills = @ + Get(player, "headKills", 0),
           !.total_shield_hits = @ + Get(player, "shieldHits", 0),
           !.total_kill_participation =
               RAdd(@, Get(player, "kill_participation", RInt(0))),
           !.avg_kda = RAdd(@, RInt(kda)),
           !.best_kda = IF better THEN kda ELSE @,
           !.best_hero = IF better THEN FirstHero(player) ELSE @,
           !.match_performances = Append(@, Performance(player, match_id, duration_sec))]

\* A fold that starts every player from a new record in every match.
RECURSIVE FoldTeamFromNew(_, _, _, _)
FoldTeamFromNew(player_stats, team, match_id, duration_sec) ==
    IF team = <<>> THEN player_stats
    ELSE LET player == Head(team)
             folded == FoldPlayer(NewPlayerStats, player, match_id, duration_sec)
         IN  FoldTeamFromNew((player.name :> folded) @@ player_stats,
                             Tail(team), match_id, duration_sec)

\* The team-side players of one match folded in, in list order; a record is
\* created on first sight of a name (the defaultdict).
RECURSIVE FoldTeam(_, _, _, _)
FoldTeam(player_stats, team, match_id, duration_sec) ==
    IF team = <<>> THEN player_stats
    ELSE LET player == Head(team)
             stats == IF player.name \in DOMAIN player_stats
                      THEN player_stats[player.name] ELSE NewPlayerStats
             folded == FoldPlayer(stats, player, match_id, duration_sec)
         IN  FoldTeam((player.name :> folded) @@ player_stats,
                      Tail(team), match_id, duration_sec)

\* A scan for the handle that gives up after the first participant.
MatchResultOfFirst(players, player_ign) ==
    IF players = <<>> THEN "Unknown"
    ELSE IF Head(players).name = player_ign THEN Head(players).result
         ELSE "Unknown"

\* Result of the first participant, team then opponents, with the handle.
RECURSIVE MatchResult(_, _)
MatchResult(players, player_ign) ==
    IF players = <<>> THEN "Unknown"
    ELSE IF Head(players).name = player_ign THEN Head(players).result
         ELSE MatchResult(Tail(players), player_ign)

\* format_duration: divmod(seconds, 60) printed as MM:SS.
format_duration(seconds) == [mm |-> seconds \div 60, ss |-> seconds % 60]

\* strftime('%Y-%m-%d %H:%M:%S') prints the local time without the offset.
strftime(t) == t.hour

\* Whether list[i] raises IndexError (Python indexes from 0 and from -len).
IndexRaises(list, i) == i >= Len(list) \/ i < 0 - Len(list)

\* list[i] in Python.
PyIndex(list, i) == IF i >= 0 THEN list[i + 1] ELSE list[Len(list) + i + 1]

\* Whether building the score string raises.
ScoreRaises(match, team) ==
    /\ match.scores # <<>>
    /\ IndexRaises(match.scores, team) \/ IndexRaises(match.scores, 1 - team)

\* The score string "<a>-<b>", as the pair of its numbers, or "N/A".
ScoreString(match, team) ==
    IF match.scores # <<>>
    THEN [own |-> PyIndex(match.scores, team),
          other |-> PyIndex(match.scores, 1 - team)]
    ELSE [na |-> "N/A"]

MatchInfo(match, match_result, team, opp, ref_team) ==
    [id |-> match.match_id,
     map |-> match.map_name,
     mode |-> match.map_mode,
     result |-> match_result,
     duration |-> format_duration(match.duration),
     duration_seconds |-> match.duration,
     score |-> ScoreString(match, ref_team),
     timestamp |-> strftime(match.timestamp),
     team_stats |-> team,
     opponent_stats |-> opp]

\* The averages added to a player's record when its tournament is over.
FinalizeStats(stats) ==
    LET n == stats.matches_played
        per10 ==
            IF RPos(stats.total_minutes)
            THEN LET total_min == stats.total_minutes
                     P(x) == RMul(RDiv(RInt(x), total_min), RInt(10))
                 IN  [avg_kills_per_10 |-> P(stats.total_kills),
                      avg_fb_per_10 |-> P(stats.total_last_kills),
                      avg_solo_kills_per_10 |-> P(stats.total_solo_kills),
                      avg_deaths_per_10 |-> P(stats.total_deaths),
                      avg_assists_per_10 |-> P(stats.total_assists),
                      avg_damage_per_10 |-> P(stats.total_damage),
                      avg_healing_per_10 |-> P(stats.total_healing),
                      avg_damage_taken_per_10 |-> P(stats.total_damage_taken)]
            ELSE EmptyDict
    IN  IF n > 0
        THEN [avg_kills |-> Rat(stats.total_kills, n),
              avg_deaths |-> Rat(stats.total_deaths, n),
              avg_assists |-> Rat(stats.total_assists, n),
              avg_damage |-> Rat(stats.total_damage, n),
              avg_healing |-> Rat(stats.total_healing, n),
              avg_damage_taken |-> Rat(stats.total_damage_taken, n),
              avg_solo_kills |-> Rat(stats.total_solo_kills, n),
              avg_last_kills |-> Rat(stats.total_last_kills, n),
              avg_head_kills |-> Rat(stats.total_head_kills, n),
              avg_shield_hits |-> Rat(stats.total_shield_hits, n),
              avg_kill_participation |->
                  RDiv(stats.total_kill_participation, RInt(n)),
              win_rate |-> RMul(Rat(stats.wins, n), RInt(100))]
             @@ per10
             @@ [stats EXCEPT !.avg_kda = RDiv(@, RInt(n))]
        ELSE stats

\* round(x, 0): the nearest whole number, a half going to the even one.
RRound(x) ==
    LET floor == x.num \div x.den
        twice == 2 * (x.num - floor * x.den)
    IN  IF twice < x.den THEN RInt(floor)
        ELSE IF twice > x.den THEN RInt(floor + 1)
        ELSE IF floor % 2 = 0 THEN RInt(floor) ELSE RInt(floor + 1)

\* The averages as marvel_rivals_dashboard.py adds them: those of final.py,
\* with the per-10 averages of damage, healing and damage taken rounded.
DashboardFinalizeStats(stats) ==
    LET final == FinalizeStats(stats)
    IN  IF "avg_damage_per_10" \in DOMAIN final
        THEN [final EXCEPT !.avg_damage_per_10 = RRound(@),
                           !.avg_healing_per_10 = RRound(@),
                           !.avg_damage_taken_per_10 = RRound(@)]
        ELSE final

FinalizeTournament(info) ==
    [info EXCEPT !.player_stats =
        [name \in DOMAIN info.player_stats |->
            IF implementation = "dashboard"
            THEN DashboardFinalizeStats(info.player_stats[name])
            ELSE FinalizeStats(info.player_stats[name])]]

(***************************************************************************)
(* Inputs.                                                                 *)
(***************************************************************************)
Hours == {12 * k : k \in 0..MaxTick}
Zones == {"Z", "+12:00"}
Modes == {"tournament", "competitive"}

RawTimestamps == [hour : Hours, zone : Zones]

\* A feed of n matches; the match at position i has id i (ids are unique).
FeedShapes(n) ==
    [1..n -> [mode : Modes, timestamp : RawTimestamps]]

MkMatch(i, shape) ==
    [id |-> i, mode |-> shape.mode, timestamp |-> shape.timestamp,
     mapName |-> "Midtown", mapModeName |-> "Convoy", duration |-> 600,
     winningTeamId |-> 0, scores |-> <<1, 0>>, segments |-> <<>>]

MkFeed(f) == [ign |-> "me", matches |-> [i \in DOMAIN f |-> MkMatch(i, f[i])]]

NoFeed == [ign |-> "me", matches |-> <<>>]

\* No run of analyze_tournaments: its variables before any call.
NoRun ==
    /\ implementation = "final"
    /\ detailed = FALSE /\ cache_dir = FALSE /\ cache = EmptyDict
    /\ player_team = None /\ driver = "none" /\ error = "none"
    /\ idx = 0 /\ mpos = 0 /\ detailed_match = NoRecord /\ fetch_log = <<>>
    /\ tournament_info = NoRecord /\ tournament_results = <<>>
    /\ driver_log = <<>> /\ run = 1 /\ fetched = {}

\* No pure call: the variables of the pure calls before any call.
NoCall ==
    /\ value = 0 /\ duration_seconds = 0 /\ rate = RInt(0)
    /\ match_data = NoRecord

(***************************************************************************)
(* Specification of cluster_tournament_matches as a call.                  *)
(***************************************************************************)
InitCluster ==
    /\ pc = "cluster_call"
    /\ \E n \in 0..MaxMatches : \E f \in FeedShapes(n) : data = MkFeed(f)
    /\ tournaments_cluster = <<>>
    /\ team_stats = <<>> /\ opponent_stats = <<>>
    /\ NoCall /\ NoRun

ClusterCall ==
    /\ pc = "cluster_call"
    /\ tournaments_cluster' = cluster_tournament_matches(data)
    /\ pc' = "cluster_done"
    /\ UNCHANGED <<data, team_stats, opponent_stats, call_vars, run_vars,
                   caller_vars>>

NextCluster == ClusterCall

SpecCluster == InitCluster /\ [][NextCluster]_vars

(***************************************************************************)
(* Specification of calculate_per_10 as a call.                            *)
(***************************************************************************)
Values == (0..MaxValue) \cup {120}
Durations == {0, 1, 59} \cup {150 * k : k \in 1..MaxDurTick}

InitPer10 ==
    /\ pc = "per10_call"
    /\ value \in Values
    /\ duration_seconds \in Durations
    /\ rate = RInt(0)
    /\ data = NoFeed /\ tournaments_cluster = <<>>
    /\ match_data = NoRecord /\ team_stats = <<>> /\ opponent_stats = <<>>
    /\ NoRun

Per10Call ==
    /\ pc = "per10_call"
    /\ rate' = calculate_per_10(value, duration_seconds)
    /\ pc' = "per10_done"
    /\ UNCHANGED <<data, tournaments_cluster, value, duration_seconds,
                   match_data, team_stats, opponent_stats, run_vars,
                   caller_vars>>

NextPer10 == Per10Call

SpecPer10 == InitPer10 /\ [][NextPer10]_vars

(***************************************************************************)
(* Specification of extract_player_stats as a call.                        *)
(***************************************************************************)
\* The stats bags of the inputs.
StatBags ==
    <<[kills |-> 5, assists |-> 1, mainAttacks |-> 4, mainAttackHits |-> 2,
       kdaRatio |-> 3],
      [kills |-> 3, assists |-> 0, mainAttacks |-> 0, mainAttackHits |-> 2],
      [kills |-> 2, assists |-> None, mainAttackHits |-> 3],
      [assists |-> 1, mainAttacks |-> 3, mainAttackHits |-> 3, score |-> 7]>>

\* One segment of a detailed record: the reference player on team 0 or
\* without team id, another player on team 0, 1 or without team id, or the
\* one non-player segment (which carries the reference handle).
SegShapes ==
    {sh \in [type : {"player", "overview"}, handle : {"me", "ally"},
             teamId : {0, 1, None}, bag : DOMAIN StatBags] :
        /\ sh.type = "overview" => sh.handle = "me" /\ sh.teamId = 1 /\ sh.bag = 1
        /\ (sh.type = "player" /\ sh.handle = "me") =>
              sh.teamId # 1 /\ sh.bag \in {1, 4}
        /\ sh.handle = "ally" => sh.bag # 1}

MkSegment(sh) ==
    [type |-> sh.type, handle |-> sh.handle, teamId |-> sh.teamId,
     result |-> IF sh.teamId = 0 THEN "win" ELSE "loss",
     heroes |-> IF sh.bag = 1 THEN <<"Hulk", "Thor">> ELSE <<>>,
     isMvp |-> 0, isSvp |-> 0,
     stats |-> StatBags[sh.bag]]

MkDetailed(d, f) == [duration |-> d, segments |-> [i \in DOMAIN f |-> MkSegment(f[i])]]

InitExtract ==
    /\ pc = "extract_call"
    /\ \E n \in 0..MaxSegs : \E f \in [1..n -> SegShapes] : \E d \in {0, 600} :
          match_data = MkDetailed(d, f)
    /\ team_stats = <<>> /\ opponent_stats = <<>>
    /\ data = NoFeed /\ tournaments_cluster = <<>>
    /\ value = 0 /\ duration_seconds = 0 /\ rate = RInt(0)
    /\ NoRun

ExtractCall ==
    /\ pc = "extract_call"
    /\ \E r \in {extract_player_stats(match_data, data.ign)} :
          team_stats' = r.team /\ opponent_stats' = r.opp
    /\ pc' = "extract_done"
    /\ UNCHANGED <<data, tournaments_cluster, value, duration_seconds, rate,
                   match_data, run_vars, caller_vars>>

NextExtract == ExtractCall

SpecExtract == InitExtract /\ [][NextExtract]_vars

(***************************************************************************)
(* Specification of analyze_tournaments: one run over a feed, with the     *)
(* fetches answered by the remote source.                                  *)
(***************************************************************************)
\* The stats of an overview segment (every key the fallback reads).
OverviewStats(k, d, a) ==
    [kills |-> k, deaths |-> d, assists |-> a, kdaRatio |-> (k + a) \div d,
     totalHeroDamage |-> 100 * k, totalHeroHeal |-> 10 * a]

Segment(type, handle, teamId, result, heroes, stats) ==
    [type |-> type, handle |-> handle, teamId |-> teamId, result |-> result,
     heroes |-> heroes, isMvp |-> 0, isSvp |-> 0, stats |-> stats]

\* The summaries a match of the feed may have: its overview segments, its
\* duration and its scores.
\*   "own0":    the reference player on team 0 with an ally, winning;
\*   "own1":    the reference player on team 1, in a match that nobody won;
\*   "absent":  no overview segment with the reference handle (a segment
\*              of another type carries it);
\*   "no_team": the reference player's overview segment has no team id;
\*   "own0_loss": the reference player on team 0, losing a longer match;
\*   "sparse":  the reference player on team 0, with a stats bag that lacks
\*              kdaRatio;
\*   "own2":    the reference player with team id 2, against team 1.
Summaries ==
    [own0 |->
        [duration |-> 600, scores |-> <<3, 1>>,
         segments |->
            <<Segment("overview", "me", 0, "win", <<"Hulk">>, OverviewStats(10, 2, 3)),
              Segment("overview", "ally", 0, "win", <<>>, OverviewStats(4, 1, 1)),
              Segment("overview", "foe", 1, "loss", <<"Loki">>, OverviewStats(2, 7, 0))>>],
     own1 |->
        [duration |-> 900, scores |-> <<2, 1>>,
         segments |->
            <<Segment("overview", "foe", 0, "draw", <<"Loki">>, OverviewStats(6, 2, 2)),
              Segment("overview", "me", 1, "draw", <<"Thor">>, OverviewStats(4, 6, 1))>>],
     absent |->
        [duration |-> 0, scores |-> <<>>,
         segments |->
            <<Segment("hero", "me", 0, "win", <<"Hulk">>, OverviewStats(1, 1, 1)),
              Segment("overview", "foe", 1, "loss", <<"Loki">>, OverviewStats(2, 1, 0))>>],
     no_team |->
        [duration |-> 600, scores |-> <<0, 2>>,
         segments |->
            <<Segment("overview", "me", None, "win", <<"Hulk">>, OverviewStats(3, 1, 0)),
              Segment("overview", "foe", 1, "loss", <<>>, OverviewStats(2, 1, 0))>>],
     own0_loss |->
        [duration |-> 900, scores |-> <<1, 3>>,
         segments |->
            <<Segment("overview", "me", 0, "loss", <<"Thor">>, OverviewStats(4, 6, 1)),
              Segment("overview", "foe", 1, "win", <<"Loki">>, OverviewStats(6, 2, 2))>>],
     own2 |->
        [duration |-> 600, scores |-> <<3, 1>>,
         segments |->
            <<Segment("overview", "me", 2, "win", <<"Hulk">>, OverviewStats(10, 2, 3)),
              Segment("overview", "foe", 1, "loss", <<"Loki">>, OverviewStats(2, 7, 0))>>],
     sparse |->
        [duration |-> 600, scores |-> <<3, 1>>,
         segments |->
            <<Segment("overview", "me", 0, "win", <<"Hulk">>,
                      [kills |-> 1, deaths |-> 1, assists |-> 0,
                       totalHeroDamage |-> 100]),
              Segment("overview", "foe", 1, "loss", <<"Loki">>, OverviewStats(2, 1, 0))>>]]

\* One match of the feed of a run: a tournament match at one of three hours
\* (hour 0 for the summaries "own1", "no_team" and "sparse", hour 0 or 48
\* for "absent"), or a match of another mode with the reference player.
MatchShapes ==
    {sh \in [mode : Modes, hour : {0, 12, 48},
             summary : {"own0", "own1", "absent", "no_team", "sparse"}] :
        /\ sh.summary \in {"own1", "no_team", "sparse"} => sh.hour = 0
        /\ sh.summary = "absent" => sh.hour # 12
        /\ sh.mode # "tournament" => sh.hour = 0 /\ sh.summary = "own1"}

MkRunMatch(i, sh) ==
    [id |-> i, mode |-> sh.mode, timestamp |-> [hour |-> sh.hour, zone |-> "Z"],
     mapName |-> "Midtown", mapModeName |-> "Convoy",
     duration |-> Summaries[sh.summary].duration,
     winningTeamId |-> 0,
     scores |-> Summaries[sh.summary].scores,
     segments |-> Summaries[sh.summary].segments]

MkRunFeed(f) == [ign |-> "me", matches |-> [i \in DOMAIN f |-> MkRunMatch(i, f[i])]]

\* A feed of three tournament matches: a win, a loss one hour later and a
\* win thirty hours after the loss, given in another order than by time.
ScenarioFeed ==
    MkRunFeed(<<[mode |-> "tournament", hour |-> 31, summary |-> "own0"],
                [mode |-> "tournament", hour |-> 0, summary |-> "own0"],
                [mode |-> "tournament", hour |-> 1, summary |-> "own0_loss"]>>)

\* The detailed records the remote source may return.
\*   DetailOwn:    the reference player and an ally on team 0, a foe on team 1
\*                 (the reference player's KDA is that of the summary "own0",
\*                 on another first hero);
\*   DetailAbsent: no player segment with the reference handle.
DetailOwn ==
    [duration |-> 600,
     segments |->
        <<Segment("player", "me", 0, "win", <<"Thor", "Hulk">>,
                  [StatBags[1] EXCEPT !.kdaRatio = 6]),
          Segment("player", "ally", 0, "win", <<>>, StatBags[2]),
          Segment("player", "foe", 1, "loss", <<"Loki">>, StatBags[3])>>]

DetailAbsent ==
    [duration |-> 600,
     segments |->
        <<Segment("overview", "me", 0, "win", <<"Hulk">>, StatBags[1]),
          Segment("player", "ally", 0, "win", <<"Thor">>, StatBags[2]),
          Segment("player", "foe", 1, "loss", <<"Loki">>, StatBags[4])>>]

\* What fetch_detailed_match_data may return: None on failure, or a record.
FetchResults == {NoRecord, DetailOwn, DetailAbsent}

\* The ways a run is called: detailed or not, without cache directory, with
\* an empty one, or with one that holds the record of match 1, in final.py;
\* with its defaults (detailed, an empty cache directory) or without both
\* in marvel_rivals_dashboard.py.
RunModes ==
    {[implementation |-> "final", detailed |-> TRUE, cache_dir |-> FALSE,
      cache |-> EmptyDict],
     [implementation |-> "final", detailed |-> TRUE, cache_dir |-> TRUE,
      cache |-> EmptyDict],
     [implementation |-> "final", detailed |-> TRUE, cache_dir |-> TRUE,
      cache |-> (1 :> DetailOwn)],
     [implementation |-> "final", detailed |-> FALSE, cache_dir |-> TRUE,
      cache |-> (1 :> DetailAbsent)],
     [implementation |-> "final", detailed |-> FALSE, cache_dir |-> FALSE,
      cache |-> EmptyDict],
     [implementation |-> "dashboard", detailed |-> TRUE, cache_dir |-> TRUE,
      cache |-> EmptyDict],
     [implementation |-> "dashboard", detailed |-> FALSE, cache_dir |-> FALSE,
      cache |-> EmptyDict]}

\* The variables a call of analyze_tournaments starts from.
RunStart ==
    /\ pc = "start"
    /\ player_team = None /\ driver = "none" /\ error = "none"
    /\ idx = 0 /\ mpos = 0 /\ detailed_match = NoRecord /\ fetch_log = <<>>
    /\ tournament_info = NoRecord /\ tournament_results = <<>>
    /\ tournaments_cluster = <<>>
    /\ team_stats = <<>> /\ opponent_stats = <<>>
    /\ driver_log = <<>>

\* A call of analyze_tournaments(data, detailed, cache_dir).
Init ==
    /\ \/ \E n \in 0..MaxFeed : \E f \in [1..n -> MatchShapes] : data = MkRunFeed(f)
       \/ data = ScenarioFeed
    /\ \E m \in RunModes :
          /\ implementation = m.implementation
          /\ detailed = m.detailed
          /\ cache_dir = m.cache_dir
          /\ cache = m.cache
    /\ RunStart
    /\ run = 1 /\ fetched = {}
    /\ NoCall

\* The reference team is looked for in the whole feed; without it the run
\* ends with ValueError.
AnalyzeStart ==
    /\ pc = "start"
    /\ player_team' = PlayerTeam(data.matches, data.ign)
    /\ IF player_team' = None
       THEN pc' = "raised" /\ error' = "ValueError"
       ELSE pc' = "cluster" /\ error' = error
    /\ UNCHANGED <<data, tournaments_cluster, team_stats, opponent_stats,
                   call_vars, implementation, detailed, cache_dir, cache, driver, idx, mpos,
                   detailed_match, fetch_log, tournament_info,
                   tournament_results, caller_vars>>

\* The feed is clustered, then the driver is created in detailed mode; an
\* error of the clustering is propagated before any driver is created.
AnalyzeCluster ==
    /\ pc = "cluster"
    /\ \E out \in {ClusterOutcome(data)} :
          IF out.raised
          THEN /\ error' = "KeyError"
               /\ pc' = "raised"
               /\ UNCHANGED <<tournaments_cluster, driver, driver_log, idx>>
          ELSE /\ error' = error
               /\ tournaments_cluster' = out.tournaments
               /\ driver' = IF detailed THEN "open" ELSE "none"
               /\ driver_log' =
                     IF detailed
                     THEN Append(driver_log, [op |-> "create", driver |-> "run"])
                     ELSE driver_log
               /\ idx' = 1
               /\ pc' = IF out.tournaments = <<>> THEN "return" ELSE "tournament"
    /\ UNCHANGED <<data, team_stats, opponent_stats, call_vars, implementation, detailed,
                   cache_dir, cache, player_team, mpos, detailed_match,
                   fetch_log, tournament_info, tournament_results, run, fetched>>

\* The head of the loop over the tournaments.
TournamentBegin ==
    /\ pc = "tournament"
    /\ tournament_info' = NewTournamentInfo(idx, tournaments_cluster[idx])
    /\ mpos' = 1
    /\ pc' = "match"
    /\ UNCHANGED <<data, tournaments_cluster, team_stats, opponent_stats,
                   call_vars, implementation, detailed, cache_dir, cache, player_team, driver,
                   error, idx, detailed_match, fetch_log, tournament_results,
                   caller_vars>>

\* A loop that walks the tournament from its last match to its first.
CurrentMatchFromLast ==
    tournaments_cluster[idx][Len(tournaments_cluster[idx]) - mpos + 1]

CurrentMatch == tournaments_cluster[idx][mpos]

\* The rest of the loop body once the detailed record `dm` is resolved (None
\* when there is none): extraction or fallback, fold, result and summary.
\* An exception leaves the loop for the finally clause.
ProcessMatch(match, dm) ==
    IF ~Truthy(dm) /\ FallbackRaises(match)
    THEN /\ error' = "KeyError"
         /\ pc' = "return"
         /\ team_stats' = <<>> /\ opponent_stats' = <<>>
         /\ UNCHANGED <<tournament_info, mpos>>
    ELSE \E r \in {IF Truthy(dm) THEN extract_player_stats(dm, data.ign)
                  ELSE Fallback(match, player_team)} :
         \E folded \in {FoldTeam(tournament_info.player_stats, r.team,
                                match.match_id, match.duration)} :
         LET match_result == MatchResult(r.team \o r.opp, data.ign)
         IN  /\ team_stats' = r.team
             /\ opponent_stats' = r.opp
             /\ IF ScoreRaises(match, player_team)
                THEN /\ error' = "IndexError"
                     /\ pc' = "return"
                     /\ tournament_info' =
                           [tournament_info EXCEPT !.player_stats = folded]
                     /\ mpos' = mpos
                ELSE /\ error' = error
                     /\ tournament_info' =
                           [tournament_info EXCEPT
                              !.player_stats = folded,
                              !.matches = Append(@, MatchInfo(match, match_result,
                                                 r.team, r.opp, player_team))]
                     /\ IF mpos < Len(tournaments_cluster[idx])
                        THEN mpos' = mpos + 1 /\ pc' = "match"
                        ELSE mpos' = mpos /\ pc' = "finalize"

\* A cache that is never read.
CachedRecordNever(match_id) == NoRecord

\* The record of the cache file of the match, None without cache directory
\* or without file.
CachedRecord(match_id) ==
    IF cache_dir /\ match_id \in DOMAIN cache THEN cache[match_id] ELSE NoRecord

\* A test that fetches whatever the mode.
NeedsFetchInAnyMode(cached) == ~Truthy(cached)

\* detailed and not detailed_match
NeedsFetch(cached) == detailed /\ ~Truthy(cached)

\* The cache is read; in detailed mode a match without cached record is
\* fetched, otherwise the match is processed with what the cache gave.
MatchResolve ==
    /\ pc = "match"
    /\ LET match == CurrentMatch
           cached == CachedRecord(match.match_id)
       IN  /\ detailed_match' = cached
           /\ IF NeedsFetch(cached)
              THEN /\ fetch_log' = Append(fetch_log, match.match_id)
                   /\ pc' = "fetch"
                   /\ UNCHANGED <<team_stats, opponent_stats, error,
                                  tournament_info, mpos>>
              ELSE /\ fetch_log' = fetch_log
                   /\ ProcessMatch(match, cached)
    /\ UNCHANGED <<data, tournaments_cluster, call_vars, implementation, detailed, cache_dir,
                   cache, player_team, driver, idx, tournament_results,
                   caller_vars>>

\* A fetch that quits the driver it used, whoever created it.
should_close_always(drv) == TRUE

\* should_close_driver: whether the call created the driver itself.
should_close_driver(drv) == drv = "none"

\* The drivers fetch_detailed_match_data creates and quits when it is called
\* with the driver `drv`: a temporary one when the argument is None.
FetchDrivers(drv) ==
    LET used == IF drv = "none" THEN "temporary" ELSE "argument"
    IN  (IF drv = "none"
         THEN <<[op |-> "create", driver |-> "temporary"]>> ELSE <<>>)
        \o (IF should_close_driver(drv)
            THEN <<[op |-> "quit", driver |-> used]>> ELSE <<>>)

\* The cache after the fetch of the match gave `r`: the record is written
\* when there is a cache directory and the fetch gave one.
CacheAfterFetch(match_id, r) ==
    IF cache_dir /\ Truthy(r) THEN (match_id :> r) @@ cache ELSE cache

\* A fetch that is issued again, up to three times, when it gave no record.
FetchReturnWithRetry ==
    /\ pc = "fetch"
    /\ \E r \in FetchResults :
          /\ detailed_match' = r
          /\ driver_log' = driver_log \o FetchDrivers(driver)
          /\ fetched' = IF Truthy(r)
                        THEN fetched \cup {[run |-> run, match_id |-> CurrentMatch.match_id]}
                        ELSE fetched
          /\ IF ~Truthy(r) /\ Len(fetch_log) < 3
             THEN /\ fetch_log' = Append(fetch_log, CurrentMatch.match_id)
                  /\ UNCHANGED <<pc, cache, team_stats, opponent_stats, error,
                                 tournament_info, mpos>>
             ELSE /\ fetch_log' = fetch_log
                  /\ cache' = CacheAfterFetch(CurrentMatch.match_id, r)
                  /\ ProcessMatch(CurrentMatch, r)
    /\ UNCHANGED <<data, tournaments_cluster, call_vars, implementation, detailed,
                   cache_dir, player_team, driver, idx, tournament_results, run>>

\* fetch_detailed_match_data returns: a record is written to the cache, and
\* the match is processed.
FetchReturn ==
    /\ pc = "fetch"
    /\ \E r \in FetchResults :
          /\ detailed_match' = r
          /\ driver_log' = driver_log \o FetchDrivers(driver)
          /\ fetched' = IF Truthy(r)
                        THEN fetched \cup {[run |-> run, match_id |-> CurrentMatch.match_id]}
                        ELSE fetched
          /\ cache' = CacheAfterFetch(CurrentMatch.match_id, r)
          /\ ProcessMatch(CurrentMatch, r)
    /\ UNCHANGED <<data, tournaments_cluster, call_vars, implementation, detailed,
                   cache_dir, player_team, driver, idx, fetch_log,
                   tournament_results, run>>

\* The averages of the tournament are computed and the aggregate is appended.
TournamentFinalize ==
    /\ pc = "finalize"
    /\ tournament_results' =
          Append(tournament_results, FinalizeTournament(tournament_info))
    /\ IF idx < Len(tournaments_cluster)
       THEN idx' = idx + 1 /\ pc' = "tournament"
       ELSE idx' = idx /\ pc' = "return"
    /\ UNCHANGED <<data, tournaments_cluster, team_stats, opponent_stats,
                   call_vars, implementation, detailed, cache_dir, cache, player_team, driver,
                   error, mpos, detailed_match, fetch_log, tournament_info,
                   caller_vars>>

\* if driver: driver.quit()
DriverAfterRun(drv) == IF drv = "open" THEN "quit" ELSE drv

\* The finally clause: the driver is quit; the run returns or propagates.
AnalyzeReturn ==
    /\ pc = "return"
    /\ driver' = DriverAfterRun(driver)
    /\ driver_log' = IF driver' # driver
                     THEN Append(driver_log, [op |-> "quit", driver |-> "run"])
                     ELSE driver_log
    /\ pc' = IF error = "none" THEN "done" ELSE "raised"
    /\ UNCHANGED <<data, tournaments_cluster, team_stats, opponent_stats,
                   call_vars, implementation, detailed, cache_dir, cache, player_team, error,
                   idx, mpos, detailed_match, fetch_log, tournament_info,
                   tournament_results, run, fetched>>

Next ==
    \/ AnalyzeStart
    \/ AnalyzeCluster
    \/ TournamentBegin
    \/ MatchResolve
    \/ FetchReturn
    \/ TournamentFinalize
    \/ AnalyzeReturn

Spec == Init /\ [][Next]_vars

(***************************************************************************)
(* Specification of two runs in a row over one cache directory.            *)
(***************************************************************************)
\* The matches of the feeds that are run twice.
RerunShapes ==
    {sh \in MatchShapes :
        /\ sh.mode = "tournament"
        /\ sh.summary \in {"own0", "own1", "sparse"}
        /\ sh.hour \in {0, 48}}

\* The two runs are made with a cache directory, empty or holding the
\* record of match 1 before the first run.
RerunModes == {m \in RunModes : m.cache_dir}

InitRerun ==
    /\ \E n \in 1..MaxFeed : \E f \in [1..n -> RerunShapes] : data = MkRunFeed(f)
    /\ \E m \in RerunModes :
          /\ implementation = m.implementation
          /\ detailed = m.detailed
          /\ cache_dir = m.cache_dir
          /\ cache = m.cache
    /\ RunStart
    /\ run = 1 /\ fetched = {}
    /\ NoCall

\* The caller runs analyze_tournaments a second time, on the same feed with
\* the same arguments and the cache directory as the first run left it.
RunAgain ==
    /\ pc \in {"done", "raised"}
    /\ run = 1
    /\ run' = 2
    /\ pc' = "start"
    /\ player_team' = None /\ driver' = "none" /\ error' = "none"
    /\ idx' = 0 /\ mpos' = 0 /\ detailed_match' = NoRecord /\ fetch_log' = <<>>
    /\ tournament_info' = NoRecord /\ tournament_results' = <<>>
    /\ tournaments_cluster' = <<>>
    /\ team_stats' = <<>> /\ opponent_stats' = <<>>
    /\ driver_log' = <<>>
    /\ UNCHANGED <<data, call_vars, implementation, detailed, cache_dir, cache,
                   fetched>>

NextRerun ==
    \/ AnalyzeStart
    \/ AnalyzeCluster
    \/ TournamentBegin
    \/ MatchResolve
    \/ FetchReturn
    \/ TournamentFinalize
    \/ AnalyzeReturn
    \/ RunAgain

SpecRerun == InitRerun /\ [][NextRerun]_vars


(***************************************************************************)
(* Specification of the runs that may fail and of the driver lifecycle: a  *)
(* run of analyze_tournaments over a feed with malformed summaries, or a   *)
(* call of fetch_detailed_match_data(match_id, driver) made by another     *)
(* caller, without driver or with an open one.                             *)
(***************************************************************************)
\* The raw match without one of its keys.
Without(match, key) == [k \in DOMAIN match \ {key} |-> match[k]]

\* One match of these feeds: a summary and the key it lacks ("none" when it
\* carries them all).
FaultShapes ==
    {[mode |-> "tournament", hour |-> 0, summary |-> "own0", lacks |-> "none"],
     [mode |-> "tournament", hour |-> 48, summary |-> "own0", lacks |-> "none"],
     [mode |-> "tournament", hour |-> 0, summary |-> "own0", lacks |-> "duration"],
     [mode |-> "tournament", hour |-> 48, summary |-> "own0", lacks |-> "scores"],
     [mode |-> "competitive", hour |-> 0, summary |-> "own1", lacks |-> "duration"],
     [mode |-> "tournament", hour |-> 0, summary |-> "own2", lacks |-> "none"],
     [mode |-> "tournament", hour |-> 0, summary |-> "absent", lacks |-> "none"],
     [mode |-> "tournament", hour |-> 0, summary |-> "sparse", lacks |-> "none"]}

MkFaultMatch(i, sh) ==
    IF sh.lacks = "none" THEN MkRunMatch(i, sh)
    ELSE Without(MkRunMatch(i, sh), sh.lacks)

MkFaultFeed(f) ==
    [ign |-> "me", matches |-> [i \in DOMAIN f |-> MkFaultMatch(i, f[i])]]

\* These runs are made without cache directory in final.py, detailed or not,
\* and with the defaults of marvel_rivals_dashboard.py.
FaultModes ==
    {m \in RunModes :
        \/ m.implementation = "final" /\ ~m.cache_dir
        \/ m.implementation = "dashboard" /\ m.detailed}

InitFaults ==
    \/ /\ \E n \in 0..MaxFeed : \E f \in [1..n -> FaultShapes] :
             data = MkFaultFeed(f)
       /\ \E m \in FaultModes :
             /\ implementation = m.implementation
             /\ detailed = m.detailed
             /\ cache_dir = m.cache_dir
             /\ cache = m.cache
       /\ RunStart
       /\ run = 1 /\ fetched = {}
       /\ NoCall
    \/ /\ pc = "fetch_call"
       /\ data = NoFeed
       /\ implementation \in {"final", "dashboard"}
       /\ detailed = FALSE /\ cache_dir = FALSE /\ cache = EmptyDict
       /\ player_team = None /\ error = "none"
       /\ driver \in {"none", "open"}
       /\ idx = 0 /\ mpos = 0 /\ detailed_match = NoRecord
       /\ \E match_id \in 1..MaxFeed : fetch_log = <<match_id>>
       /\ tournament_info = NoRecord /\ tournament_results = <<>>
       /\ tournaments_cluster = <<>>
       /\ team_stats = <<>> /\ opponent_stats = <<>>
       /\ driver_log = <<>>
       /\ run = 1 /\ fetched = {}
       /\ NoCall

\* fetch_detailed_match_data(match_id, driver) called by another caller: it
\* returns None or a record, and leaves a driver it was given as it was.
FetchCall ==
    /\ pc = "fetch_call"
    /\ pc' = "fetch_done"
    /\ \E r \in FetchResults : detailed_match' = r
    /\ driver_log' = driver_log \o FetchDrivers(driver)
    /\ UNCHANGED <<data, tournaments_cluster, team_stats, opponent_stats,
                   call_vars, implementation, detailed, cache_dir, cache, player_team, driver,
                   error, idx, mpos, fetch_log, tournament_info,
                   tournament_results, run, fetched>>

NextFaults ==
    \/ AnalyzeStart
    \/ AnalyzeCluster
    \/ TournamentBegin
    \/ MatchResolve
    \/ FetchReturn
    \/ TournamentFinalize
    \/ AnalyzeReturn
    \/ FetchCall

SpecFaults == InitFaults /\ [][NextFaults]_vars

(***************************************************************************)
(* Properties of cluster_tournament_matches.                               *)
(***************************************************************************)
ClusterDone == pc = "cluster_done"

\* Positions <<c, k>> of the output: cluster c, member k.
OutPositions ==
    {<<c, k>> \in (DOMAIN tournaments_cluster) \X (1..MaxMatches + 1) :
        k \in DOMAIN tournaments_cluster[c]}

OutAt(p) == tournaments_cluster[p[1]][p[2]]

\* Feed positions (= ids) of the tournament-mode matches.
TournamentIds == {i \in DOMAIN data.matches : data.matches[i].mode = "tournament"}

\* The output read cluster after cluster.
RECURSIVE Flatten(_)
Flatten(ts) == IF ts = <<>> THEN <<>> ELSE Head(ts) \o Flatten(Tail(ts))

\* C1: every tournament-mode match of the input is at exactly one position of
\* the output, and every position of the output holds a tournament-mode
\* match of the input (no loss, no duplication, other modes excluded).
C1_Partition ==
    ClusterDone =>
        /\ \A i \in TournamentIds :
              Cardinality({p \in OutPositions : OutAt(p).match_id = i}) = 1
        /\ \A p \in OutPositions : OutAt(p).match_id \in TournamentIds

C1_Witness ==
    /\ ClusterDone
    /\ Cardinality(TournamentIds) >= 2
    /\ Cardinality(TournamentIds) < Len(data.matches)
    /\ Len(tournaments_cluster) >= 2

\* C2: inside a cluster two adjacent matches are at most 24h apart (exactly
\* 24h stays inside), and the last match of a cluster and the first of the
\* next are more than 24h apart.
C2_Gaps ==
    ClusterDone =>
        /\ \A c \in DOMAIN tournaments_cluster :
              \A k \in 1..(Len(tournaments_cluster[c]) - 1) :
                 Instant(tournaments_cluster[c][k + 1].timestamp)
                    - Instant(tournaments_cluster[c][k].timestamp) <= DayHours
        /\ \A c \in 1..(Len(tournaments_cluster) - 1) :
              /\ tournaments_cluster[c] # <<>>
              /\ tournaments_cluster[c + 1] # <<>>
              /\ Instant(tournaments_cluster[c + 1][1].timestamp)
                    - Instant(tournaments_cluster[c][Len(tournaments_cluster[c])].timestamp)
                    > DayHours

C2_Witness ==
    /\ ClusterDone
    /\ Len(tournaments_cluster) = 2
    /\ Len(tournaments_cluster[1]) = 2
    /\ Instant(tournaments_cluster[1][2].timestamp)
          - Instant(tournaments_cluster[1][1].timestamp) = DayHours

\* C3: read cluster after cluster, the output is in ascending timestamp
\* order, and matches of equal timestamp are in input order.
C3_Ordered ==
    ClusterDone =>
        LET out == Flatten(tournaments_cluster)
        IN  \A a, b \in DOMAIN out :
               a < b =>
                  \/ Instant(out[a].timestamp) < Instant(out[b].timestamp)
                  \/ /\ Instant(out[a].timestamp) = Instant(out[b].timestamp)
                     /\ out[a].match_id < out[b].match_id

C3_Witness ==
    /\ ClusterDone
    /\ LET out == Flatten(tournaments_cluster)
       IN  /\ Len(out) = 3
           /\ out[1].match_id = 3
           /\ Instant(out[2].timestamp) = Instant(out[3].timestamp)
           /\ out[2].timestamp # out[3].timestamp

\* C4: no cluster of the output is empty; no tournament-mode match gives no
\* cluster, exactly one gives one cluster of one match.
C4_NoEmptyCluster ==
    ClusterDone =>
        /\ \A c \in DOMAIN tournaments_cluster : tournaments_cluster[c] # <<>>
        /\ TournamentIds = {} => tournaments_cluster = <<>>
        /\ Cardinality(TournamentIds) = 1 =>
              /\ Len(tournaments_cluster) = 1
              /\ Len(tournaments_cluster[1]) = 1

C4_Witness ==
    /\ ClusterDone
    /\ Cardinality(TournamentIds) = 1
    /\ Len(data.matches) = 3
    /\ Len(tournaments_cluster) = 1

(***************************************************************************)
(* Properties of calculate_per_10.                                         *)
(***************************************************************************)
Per10Done == pc = "per10_done"

\* C5 (as amended): the rate is value / (duration_seconds / 60) * 10, that
\* is rate * duration_seconds = value * 600, for every duration_seconds > 0,
\* and 0 for duration_seconds = 0; in particular per10(120, 600) = 120.
C5_Per10 ==
    Per10Done =>
        /\ rate.den > 0
        /\ duration_seconds > 0 =>
              rate.num * duration_seconds = value * 600 * rate.den
        /\ duration_seconds = 0 => rate = RInt(0)
        /\ (value = 120 /\ duration_seconds = 600) => rate = RInt(120)

\* C5 as claimed: the same with per10(120, 600) = 20.
C5_AsClaimed ==
    Per10Done =>
        /\ duration_seconds > 0 =>
              rate.num * duration_seconds = value * 600 * rate.den
        /\ duration_seconds = 0 => rate = RInt(0)
        /\ (value = 120 /\ duration_seconds = 600) => rate = RInt(20)

C5_Witness == Per10Done /\ value = 120 /\ duration_seconds = 600

(***************************************************************************)
(* Properties of extract_player_stats.                                     *)
(***************************************************************************)
ExtractDone == pc = "extract_done"

\* The player segments of a detailed record, in encounter order.
PlayerSegments(md) == SelectSeq(md.segments, LAMBDA seg : seg.type = "player")

\* Positions, among the player segments, of the reference handle.
RefPositions(players, ign) == {i \in DOMAIN players : players[i].handle = ign}

Least(S) == CHOOSE i \in S : \A j \in S : i <= j

\* The k-th smallest element of a set of positions.
Kth(S, k) == CHOOSE i \in S : Cardinality({j \in S : j < i}) = k - 1

\* Positions of the player segments that are on the reference player's team:
\* none when the reference player is absent or has no team id.
TeamPositions(players, ign) ==
    LET ref == RefPositions(players, ign)
    IN  IF ref = {} \/ players[Least(ref)].teamId = None THEN {}
        ELSE {i \in DOMAIN players :
                 players[i].teamId = players[Least(ref)].teamId}

\* `stats` lists the segments of `players` at `positions`, in order.
ListsInOrder(stats, players, positions) ==
    /\ Len(stats) = Cardinality(positions)
    /\ \A k \in DOMAIN stats :
          LET seg == players[Kth(positions, k)]
          IN  /\ stats[k].name = seg.handle
              /\ stats[k].team_id = seg.teamId
              /\ stats[k].result = seg.result
              /\ ("kills" \in DOMAIN stats[k]) = ("kills" \in DOMAIN seg.stats)
              /\ Get(stats[k], "kills", 0) = StatValue(Get(seg.stats, "kills", 0))

\* The two lists produced from a detailed record `md` for handle `ign` split
\* its player segments by team.
SplitByTeam(md, ign, team, opp) ==
    LET players == PlayerSegments(md)
        onTeam == TeamPositions(players, ign)
    IN  /\ Len(team) + Len(opp) = Len(players)
        /\ ListsInOrder(team, players, onTeam)
        /\ ListsInOrder(opp, players, (DOMAIN players) \ onTeam)

\* C6: every player segment is in exactly one list, in team_stats iff the
\* reference player's team is defined and equal to the segment's team id,
\* and both lists keep the encounter order.
C6_Classification ==
    ExtractDone => SplitByTeam(match_data, data.ign, team_stats, opponent_stats)

C6_Witness ==
    /\ ExtractDone
    /\ Len(match_data.segments) = 3
    /\ Len(team_stats) = 1
    /\ Len(opponent_stats) = 2
    /\ opponent_stats[1].team_id = None
    /\ opponent_stats[2].team_id = 1

\* Sum of the kills of a group, absent kills read as 0.
RECURSIVE GroupKillSum(_, _)
GroupKillSum(group, n) ==
    IF n = 0 THEN 0 ELSE Get(group[n], "kills", 0) + GroupKillSum(group, n - 1)

KillParticipationOf(group) ==
    LET total == GroupKillSum(group, Len(group))
    IN  \A i \in DOMAIN group :
           LET kp == group[i].kill_participation
               ka == Get(group[i], "kills", 0) + Get(group[i], "assists", 0)
           IN  /\ kp.den > 0
               /\ total > 0 => kp.num * total = 100 * ka * kp.den
               /\ total = 0 => kp = RInt(0)

\* The kills and assists of a group, absent ones read as 0.
KillsOf(group) == [i \in DOMAIN group |-> Get(group[i], "kills", 0)]
AssistsOf(group) == [i \in DOMAIN group |-> Get(group[i], "assists", 0)]

\* C8: in each group, kill_participation = 100 * (kills + assists) / sum of
\* the group's kills when that sum is > 0, and 0 when it is 0; kills
\* {5,3,2} with assists {1,0,0} give {60,30,20}.
C8_KillParticipation ==
    ExtractDone =>
        /\ KillParticipationOf(team_stats)
        /\ KillParticipationOf(opponent_stats)
        /\ \A group \in {team_stats, opponent_stats} :
              (KillsOf(group) = <<5, 3, 2>> /\ AssistsOf(group) = <<1, 0, 0>>) =>
                 [i \in DOMAIN group |-> group[i].kill_participation]
                    = <<RInt(60), RInt(30), RInt(20)>>

C8_Witness ==
    /\ ExtractDone
    /\ KillsOf(team_stats) = <<5, 3, 2>>
    /\ AssistsOf(team_stats) = <<1, 0, 0>>
    /\ team_stats[1].kill_participation = RInt(60)

\* C9: accuracy = 100 * mainAttackHits / mainAttacks when mainAttacks > 0,
\* and 0 when mainAttacks is 0 or absent, whatever mainAttackHits.
C9_Accuracy ==
    ExtractDone =>
        \A group \in {team_stats, opponent_stats} :
           \A i \in DOMAIN group :
              LET attacks == Get(group[i], "mainAttacks", 0)
                  hits == Get(group[i], "mainAttackHits", 0)
                  acc == group[i].accuracy
              IN  /\ acc.den > 0
                  /\ attacks > 0 => acc.num * attacks = 100 * hits * acc.den
                  /\ attacks = 0 => acc = RInt(0)

C9_Witness ==
    /\ ExtractDone
    /\ Len(opponent_stats) = 3
    /\ "mainAttacks" \in DOMAIN opponent_stats[1]
    /\ opponent_stats[1].mainAttacks = 0
    /\ opponent_stats[1].mainAttackHits = 2
    /\ "mainAttacks" \notin DOMAIN opponent_stats[2]
    /\ opponent_stats[2].mainAttackHits = 3
    /\ opponent_stats[3].mainAttacks = 3
    /\ opponent_stats[3].accuracy = RInt(100)

(***************************************************************************)
(* Properties of analyze_tournaments.                                      *)
(***************************************************************************)
\* Some overview segment of some match of the feed carries the reference
\* handle together with a team id.
HasReferenceTeam ==
    \E i \in DOMAIN data.matches :
       \E j \in DOMAIN data.matches[i].segments :
          LET seg == data.matches[i].segments[j]
          IN  /\ seg.type = "overview"
              /\ seg.handle = data.ign
              /\ seg.teamId # None

\* The reference handle is on no player segment of the resolved record.
ReferenceAbsent(md) == RefPositions(PlayerSegments(md), data.ign) = {}

\* C7: when no player segment of the detailed record of a match has the
\* reference handle, team_stats is empty, every player segment is in
\* opponent_stats, nothing is raised, the match is recorded and the run goes
\* on with the next match, up to one aggregate per tournament.
C7_ReferenceAbsent ==
    (Truthy(detailed_match) /\ ReferenceAbsent(detailed_match)) =>
        /\ team_stats = <<>>
        /\ SplitByTeam(detailed_match, data.ign, <<>>, opponent_stats)
        /\ Len(opponent_stats) = Len(PlayerSegments(detailed_match))
        /\ error = "none"
        /\ pc \in {"match", "finalize", "tournament", "return", "done"}
        /\ pc = "match" => Len(tournament_info.matches) = mpos - 1
        /\ pc = "finalize" =>
              Len(tournament_info.matches) = Len(tournaments_cluster[idx])
        /\ pc = "done" =>
              /\ Len(tournament_results) = Len(tournaments_cluster)
              /\ \A i \in DOMAIN tournament_results :
                    Len(tournament_results[i].matches) = Len(tournaments_cluster[i])

\* A finished run whose first tournament has two matches, the first resolved
\* from a detailed record without the reference player, the second with
\* team-side players.
C7_Witness ==
    /\ pc = "done"
    /\ tournament_results # <<>>
    /\ Len(tournament_results[1].matches) = 2
    /\ tournament_results[1].matches[1].team_stats = <<>>
    /\ Len(tournament_results[1].matches[1].opponent_stats) = 2
    /\ "accuracy" \in DOMAIN tournament_results[1].matches[1].opponent_stats[1]
    /\ tournament_results[1].matches[2].team_stats # <<>>
    /\ Truthy(detailed_match)
    /\ ~ReferenceAbsent(detailed_match)

\* C10: when no overview segment of the feed carries the reference handle
\* with a team id, the run raises from its first step: it never clusters,
\* reads the cache for a match, fetches, creates a driver or aggregates.
C10_Precondition ==
    ~HasReferenceTeam =>
        /\ pc \in {"start", "raised"}
        /\ pc = "raised" => error = "ValueError"
        /\ player_team = None
        /\ tournaments_cluster = <<>>
        /\ fetch_log = <<>>
        /\ detailed_match = NoRecord
        /\ driver = "none"
        /\ tournament_info = NoRecord
        /\ tournament_results = <<>>
        /\ team_stats = <<>> /\ opponent_stats = <<>>

\* A detailed run raised on a feed of two tournament matches: one whose
\* reference handle is on a segment of another type only, one whose
\* reference overview segment has no team id.
C10_Witness ==
    /\ pc = "raised"
    /\ ~HasReferenceTeam
    /\ detailed
    /\ Len(data.matches) = 2
    /\ \A i \in DOMAIN data.matches : data.matches[i].mode = "tournament"
    /\ \E j \in DOMAIN data.matches[1].segments :
          /\ data.matches[1].segments[j].handle = data.ign
          /\ data.matches[1].segments[j].type # "overview"
    /\ \E j \in DOMAIN data.matches[2].segments :
          /\ data.matches[2].segments[j].handle = data.ign
          /\ data.matches[2].segments[j].type = "overview"

\* The number of overview segments of a match summary.
OverviewCount(match) ==
    Cardinality({i \in DOMAIN match.segments : match.segments[i].type = "overview"})

\* The fields of a record built by the fallback extraction.
FallbackFields ==
    {"name", "team_id", "result", "heroes", "kills", "deaths", "assists",
     "kdaRatio", "totalHeroDamage", "totalHeroHeal"}

\* The step in which a fetch comes back without a record.
FetchFailed == pc = "fetch" /\ pc' # "fetch" /\ detailed_match' = NoRecord

\* The current match is resolved from its overview segments, its summary is
\* appended to the tournament's match list and the run is at the next match
\* (or at the end of the tournament).
ResolvedByFallbackAndRecorded ==
    /\ error' = "none"
    /\ Len(team_stats') + Len(opponent_stats') = OverviewCount(CurrentMatch)
    /\ \A i \in DOMAIN team_stats' : DOMAIN team_stats'[i] = FallbackFields
    /\ \A i \in DOMAIN opponent_stats' : DOMAIN opponent_stats'[i] = FallbackFields
    /\ Len(tournament_info'.matches) = Len(tournament_info.matches) + 1
    /\ LET last == tournament_info'.matches[Len(tournament_info'.matches)]
       IN  /\ last.id = CurrentMatch.match_id
           /\ last.team_stats = team_stats'
           /\ last.opponent_stats = opponent_stats'
    /\ IF mpos < Len(tournaments_cluster[idx])
       THEN pc' = "match" /\ mpos' = mpos + 1
       ELSE pc' = "finalize"

\* C11: a fetch that returns no record is never fatal: the match is resolved
\* by the fallback extraction from its overview segments, it is recorded in
\* the tournament's match list and the run goes on to the next match.
C11_FetchFailureNeverFatal ==
    [][FetchFailed => ResolvedByFallbackAndRecorded]_vars

\* C11, for the matches whose overview segments carry every stat the
\* fallback reads: there the fetch failure is not fatal.
C11_FetchFailureCompleteSummary ==
    [][(FetchFailed /\ ~FallbackRaises(CurrentMatch)) =>
          ResolvedByFallbackAndRecorded]_vars

\* A failed fetch of a match whose reference overview segment lacks
\* kdaRatio has ended the run with KeyError, the match unrecorded.
C11_Witness ==
    /\ pc = "raised"
    /\ error = "KeyError"
    /\ fetch_log # <<>>
    /\ detailed_match = NoRecord
    /\ tournament_results = <<>>
    /\ driver = "quit"

\* The team id the run takes as reference: in the first match of the feed
\* (in feed order) whose first overview segment with the reference handle
\* has a team id, that team id.
ReferenceOverviews(match) ==
    {j \in DOMAIN match.segments :
        /\ match.segments[j].type = "overview"
        /\ match.segments[j].handle = data.ign}

MatchReferenceTeam(match) ==
    IF ReferenceOverviews(match) = {} THEN None
    ELSE match.segments[Least(ReferenceOverviews(match))].teamId

GlobalReferenceTeam ==
    LET deciding == {i \in DOMAIN data.matches :
                        MatchReferenceTeam(data.matches[i]) # None}
    IN  IF deciding = {} THEN None
        ELSE MatchReferenceTeam(data.matches[Least(deciding)])

\* `info` is the fallback record of the overview segment `seg`.
IsFallbackRecordOf(info, seg) ==
    /\ DOMAIN info = FallbackFields
    /\ info.name = seg.handle
    /\ info.team_id = seg.teamId
    /\ info.result = seg.result
    /\ info.heroes = IF seg.heroes = <<>> THEN <<"Unknown">> ELSE seg.heroes
    /\ info.kills = seg.stats.kills
    /\ info.deaths = seg.stats.deaths
    /\ info.assists = seg.stats.assists
    /\ info.kdaRatio = seg.stats.kdaRatio
    /\ info.totalHeroDamage = seg.stats.totalHeroDamage
    /\ info.totalHeroHeal =
          IF "totalHeroHeal" \in DOMAIN seg.stats THEN seg.stats.totalHeroHeal ELSE 0

\* The step that records a match resolved without detailed record.
FallbackStep ==
    /\ pc \in {"match", "fetch"}
    /\ detailed_match' = NoRecord
    /\ Len(tournament_info'.matches) = Len(tournament_info.matches) + 1

\* C12: on the fallback path every overview segment of the summary is in
\* exactly one list, in team_stats iff its team id is the reference team id
\* fixed at the start of the run, in encounter order, and each record has
\* only the fallback fields, read from the segment.
C12_FallbackSplit ==
    [][FallbackStep =>
          LET segs == SelectSeq(CurrentMatch.segments,
                                LAMBDA seg : seg.type = "overview")
              onTeam == {i \in DOMAIN segs : segs[i].teamId = GlobalReferenceTeam}
              others == (DOMAIN segs) \ onTeam
          IN  /\ player_team = GlobalReferenceTeam
              /\ player_team' = player_team
              /\ Len(team_stats') = Cardinality(onTeam)
              /\ Len(opponent_stats') = Cardinality(others)
              /\ \A k \in DOMAIN team_stats' :
                    IsFallbackRecordOf(team_stats'[k], segs[Kth(onTeam, k)])
              /\ \A k \in DOMAIN opponent_stats' :
                    IsFallbackRecordOf(opponent_stats'[k], segs[Kth(others, k)])]_vars

\* The second match of a tournament was resolved by fallback and has the
\* reference player on the other side than the reference team: the foe on
\* team 0 is in team_stats, the reference player in opponent_stats.
C12_Witness ==
    /\ pc \in {"match", "finalize"}
    /\ detailed_match = NoRecord
    /\ Len(tournament_info.matches) = 2
    /\ player_team = 0
    /\ Len(team_stats) = 1 /\ team_stats[1].name = "foe"
    /\ Len(opponent_stats) = 1 /\ opponent_stats[1].name = data.ign
    /\ tournament_info.matches[2].team_stats = team_stats
    /\ DOMAIN team_stats[1] = FallbackFields

(***************************************************************************)
(* Properties of the returned aggregates.                                  *)
(***************************************************************************)
Returned == pc = "done"

\* The team-side entries of player `name` in the summaries of an aggregate:
\* pairs of a match position and a position in its team_stats.
TeamSideEntries(aggregate, name) ==
    {e \in (DOMAIN aggregate.matches) \X (1..MaxSegs) :
        /\ e[2] \in DOMAIN aggregate.matches[e[1]].team_stats
        /\ aggregate.matches[e[1]].team_stats[e[2]].name = name}

EntryResult(aggregate, e) == aggregate.matches[e[1]].team_stats[e[2]].result

\* The counts of one player record, losses being the entries with the
\* result `lost` when strict, every entry that is no win otherwise.
CountsOf(aggregate, name, strict) ==
    LET stats == aggregate.player_stats[name]
        entries == TeamSideEntries(aggregate, name)
        won == {e \in entries : EntryResult(aggregate, e) = "win"}
        lost == {e \in entries :
                    IF strict THEN EntryResult(aggregate, e) = "loss"
                    ELSE EntryResult(aggregate, e) # "win"}
    IN  /\ stats.matches_played = Cardinality(entries)
        /\ stats.wins = Cardinality(won)
        /\ stats.losses = Cardinality(lost)
        /\ stats.win_rate = RMul(Rat(stats.wins, stats.matches_played), RInt(100))

\* C13: in every returned aggregate, a player's matches_played counts the
\* matches with the player on the team side, wins those with result 'win',
\* losses those with result 'loss', and win_rate is wins / matches_played * 100.
C13_Counts ==
    Returned =>
        \A t \in DOMAIN tournament_results :
           \A name \in DOMAIN tournament_results[t].player_stats :
              CountsOf(tournament_results[t], name, TRUE)

\* C13 with the losses the code counts: every team-side match that is no win.
C13_CountsNotWin ==
    Returned =>
        \A t \in DOMAIN tournament_results :
           \A name \in DOMAIN tournament_results[t].player_stats :
              CountsOf(tournament_results[t], name, FALSE)

\* A returned aggregate in which a team-side player has a match with a
\* result that is neither 'win' nor 'loss', counted in losses.
C13_Witness ==
    /\ Returned
    /\ \E t \in DOMAIN tournament_results :
          \E name \in DOMAIN tournament_results[t].player_stats :
             /\ tournament_results[t].player_stats[name].losses = 1
             /\ tournament_results[t].player_stats[name].wins = 1
             /\ \E e \in TeamSideEntries(tournament_results[t], name) :
                   EntryResult(tournament_results[t], e) = "draw"

\* The aggregates whose player stats and match list are in step: the
\* returned ones and the one being folded.
Aggregates ==
    {tournament_results[t] : t \in DOMAIN tournament_results}
    \cup (IF pc \in {"match", "fetch", "finalize"} /\ error = "none"
          THEN {tournament_info} ELSE {})

EntryKda(aggregate, e) ==
    Get(aggregate.matches[e[1]].team_stats[e[2]], "kdaRatio", 0)

EntryHero(aggregate, e) == aggregate.matches[e[1]].team_stats[e[2]].heroes[1]

\* Order of the team-side entries: by match, then by position in the match.
EntryBefore(e, f) == e[1] < f[1] \/ (e[1] = f[1] /\ e[2] <= f[2])

\* The earliest team-side entry of a player that reaches the player's
\* maximal KDA.
EarliestBest(aggregate, name) ==
    LET entries == TeamSideEntries(aggregate, name)
        best == {e \in entries :
                    \A f \in entries : EntryKda(aggregate, f) <= EntryKda(aggregate, e)}
    IN  CHOOSE e \in best : \A f \in best : EntryBefore(e, f)

\* The step that folds and records one match.
FoldStep ==
    /\ pc \in {"match", "fetch"}
    /\ pc' \in {"match", "finalize"}
    /\ Len(tournament_info'.matches) = Len(tournament_info.matches) + 1

\* In a fold step a player's best_kda and best_hero change only for a KDA
\* of the match that is strictly greater than the stored best_kda.
BestChangesOnlyOnGreater ==
    FoldStep =>
        \A name \in DOMAIN tournament_info'.player_stats :
           LET old == IF name \in DOMAIN tournament_info.player_stats
                      THEN tournament_info.player_stats[name]
                      ELSE [best_kda |-> 0, best_hero |-> "None"]
               new == tournament_info'.player_stats[name]
           IN  (new.best_kda # old.best_kda \/ new.best_hero # old.best_hero) =>
                  \E k \in DOMAIN team_stats' :
                     /\ team_stats'[k].name = name
                     /\ Get(team_stats'[k], "kdaRatio", 0) > old.best_kda
                     /\ new.best_kda = Get(team_stats'[k], "kdaRatio", 0)
                     /\ new.best_hero = team_stats'[k].heroes[1]

\* best_kda is the maximal KDA and best_hero the first hero of the earliest
\* match reaching it, for every player of every aggregate.
BestIsEarliestMaximum ==
    \A aggregate \in Aggregates :
       \A name \in DOMAIN aggregate.player_stats :
          LET e == EarliestBest(aggregate, name)
          IN  /\ aggregate.player_stats[name].best_kda = EntryKda(aggregate, e)
              /\ aggregate.player_stats[name].best_hero = EntryHero(aggregate, e)

\* The same, with no best hero for a player whose maximal KDA is 0.
BestIsEarliestPositiveMaximum ==
    \A aggregate \in Aggregates :
       \A name \in DOMAIN aggregate.player_stats :
          LET e == EarliestBest(aggregate, name)
          IN  /\ aggregate.player_stats[name].best_kda = EntryKda(aggregate, e)
              /\ aggregate.player_stats[name].best_hero =
                    IF EntryKda(aggregate, e) > 0
                    THEN EntryHero(aggregate, e) ELSE "None"

\* C14 as stated: best_kda and best_hero change only on a strictly greater
\* KDA, and at every point best_kda is the maximal KDA of the player and
\* best_hero the first hero of the earliest match reaching it.
C14_AsClaimed ==
    [][BestChangesOnlyOnGreater]_vars /\ []BestIsEarliestMaximum

\* C14: best_kda and best_hero change only on a strictly greater KDA; hence
\* best_kda is the maximal KDA of the player, and best_hero is the first
\* hero of the earliest match reaching it when that maximum is above 0 and
\* is None when it is 0.
C14_BestKda ==
    [][BestChangesOnlyOnGreater]_vars /\ []BestIsEarliestPositiveMaximum

\* A returned run with a player whose two matches of one tournament tie on
\* the KDA with different first heroes, the first one kept, and a player
\* whose only KDA is 0 and who has no best hero.
C14_Witness ==
    /\ Returned
    /\ \E t \in DOMAIN tournament_results :
          \E name \in DOMAIN tournament_results[t].player_stats :
             \E e, f \in TeamSideEntries(tournament_results[t], name) :
                /\ e[1] < f[1]
                /\ EntryKda(tournament_results[t], e) = EntryKda(tournament_results[t], f)
                /\ EntryHero(tournament_results[t], e) # EntryHero(tournament_results[t], f)
                /\ EntryKda(tournament_results[t], e) > 0
                /\ tournament_results[t].player_stats[name].best_hero =
                      EntryHero(tournament_results[t], e)
    /\ \E t \in DOMAIN tournament_results :
          \E name \in DOMAIN tournament_results[t].player_stats :
             /\ tournament_results[t].player_stats[name].matches_played >= 1
             /\ tournament_results[t].player_stats[name].best_hero = "None"

\* The instant of the match `id` of the feed.
FeedInstant(id) ==
    LET i == CHOOSE j \in DOMAIN data.matches : data.matches[j].id = id
    IN  Instant(fromisoformat(data.matches[i].timestamp))

\* Between two states of the same tournament every log keeps what it had.
LogsAppendOnly ==
    (/\ tournament_info # NoRecord
     /\ tournament_info' # NoRecord
     /\ tournament_info'.id = tournament_info.id) =>
        \A name \in DOMAIN tournament_info.player_stats :
           /\ name \in DOMAIN tournament_info'.player_stats
           /\ LET old == tournament_info.player_stats[name].match_performances
                  new == tournament_info'.player_stats[name].match_performances
              IN  /\ Len(old) <= Len(new)
                  /\ SubSeq(new, 1, Len(old)) = old

\* Every log has one snapshot per match played, in the order of the
\* match timestamps.
LogsOnePerMatchInTimeOrder ==
    \A aggregate \in Aggregates :
       \A name \in DOMAIN aggregate.player_stats :
          LET stats == aggregate.player_stats[name]
              log == stats.match_performances
              entries == TeamSideEntries(aggregate, name)
          IN  /\ Len(log) = stats.matches_played
              /\ Len(log) = Cardinality(entries)
              /\ \A i, j \in DOMAIN log : i # j => log[i].match_id # log[j].match_id
              /\ {log[i].match_id : i \in DOMAIN log} =
                    {aggregate.matches[e[1]].id : e \in entries}
              /\ \A i, j \in DOMAIN log :
                    i < j => FeedInstant(log[i].match_id) <= FeedInstant(log[j].match_id)

\* C15: every match_performances log is append-only, has one snapshot per
\* match played (its length is matches_played at every point of the fold)
\* and is in ascending order of match timestamp, whatever way each match
\* was resolved.
C15_PerformanceLog ==
    [][LogsAppendOnly]_vars /\ []LogsOnePerMatchInTimeOrder

\* A returned tournament of two matches given in the feed against the order
\* of time, the earlier resolved from a detailed record and the later by
\* fallback, with the reference player's log of two snapshots.
C15_Witness ==
    /\ Returned
    /\ \E t \in DOMAIN tournament_results :
          LET aggregate == tournament_results[t]
          IN  /\ Len(aggregate.matches) = 2
              /\ aggregate.matches[1].id > aggregate.matches[2].id
              /\ FeedInstant(aggregate.matches[1].id) < FeedInstant(aggregate.matches[2].id)
              /\ aggregate.matches[1].team_stats # <<>>
              /\ "is_mvp" \in DOMAIN aggregate.matches[1].team_stats[1]
              /\ aggregate.matches[2].team_stats # <<>>
              /\ "is_mvp" \notin DOMAIN aggregate.matches[2].team_stats[1]
              /\ data.ign \in DOMAIN aggregate.player_stats
              /\ Len(aggregate.player_stats[data.ign].match_performances) = 2

\* sum / total_minutes * 10
Per10Average(sum, total_minutes) == RMul(RDiv(RInt(sum), total_minutes), RInt(10))

Per10AverageKeys ==
    {"avg_kills_per_10", "avg_fb_per_10", "avg_solo_kills_per_10",
     "avg_deaths_per_10", "avg_assists_per_10", "avg_damage_per_10",
     "avg_healing_per_10", "avg_damage_taken_per_10"}

\* The sum of the KDA of the team-side entries of a player.
RECURSIVE SumKda(_, _)
SumKda(aggregate, entries) ==
    IF entries = {} THEN 0
    ELSE LET e == CHOOSE f \in entries : TRUE
         IN  EntryKda(aggregate, e) + SumKda(aggregate, entries \ {e})

\* The averages of a finalized player record are the quotients of its sums.
AveragesOf(aggregate, name) ==
    LET stats == aggregate.player_stats[name]
        n == stats.matches_played
        min == stats.total_minutes
    IN  /\ n > 0
        /\ stats.avg_kda = Rat(SumKda(aggregate, TeamSideEntries(aggregate, name)), n)
        /\ stats.avg_kills = Rat(stats.total_kills, n)
        /\ stats.avg_deaths = Rat(stats.total_deaths, n)
        /\ stats.avg_assists = Rat(stats.total_assists, n)
        /\ stats.avg_damage = Rat(stats.total_damage, n)
        /\ stats.avg_healing = Rat(stats.total_healing, n)
        /\ stats.avg_damage_taken = Rat(stats.total_damage_taken, n)
        /\ stats.avg_solo_kills = Rat(stats.total_solo_kills, n)
        /\ stats.avg_last_kills = Rat(stats.total_last_kills, n)
        /\ stats.avg_head_kills = Rat(stats.total_head_kills, n)
        /\ stats.avg_shield_hits = Rat(stats.total_shield_hits, n)
        /\ stats.avg_kill_participation =
              RDiv(stats.total_kill_participation, RInt(n))
        /\ \A k \in Per10AverageKeys : (k \in DOMAIN stats) = RPos(min)
        /\ RPos(min) =>
              /\ stats.avg_kills_per_10 = Per10Average(stats.total_kills, min)
              /\ stats.avg_fb_per_10 = Per10Average(stats.total_last_kills, min)
              /\ stats.avg_solo_kills_per_10 = Per10Average(stats.total_solo_kills, min)
              /\ stats.avg_deaths_per_10 = Per10Average(stats.total_deaths, min)
              /\ stats.avg_assists_per_10 = Per10Average(stats.total_assists, min)

\* The per-10 averages of damage, healing and damage taken are exact.
ExactDamageAveragesOf(stats) ==
    RPos(stats.total_minutes) =>
        /\ stats.avg_damage_per_10 = Per10Average(stats.total_damage, stats.total_minutes)
        /\ stats.avg_healing_per_10 = Per10Average(stats.total_healing, stats.total_minutes)
        /\ stats.avg_damage_taken_per_10 =
              Per10Average(stats.total_damage_taken, stats.total_minutes)

\* C16: after a tournament is finalized, for every player, avg_kda is the
\* sum of the per-match KDA over matches_played, every average of a counter
\* is its sum over matches_played, and the eight per-10 averages are present
\* iff total_minutes > 0, each equal to sum / total_minutes * 10; in both
\* source files.
C16_Averages ==
    \A t \in DOMAIN tournament_results :
       \A name \in DOMAIN tournament_results[t].player_stats :
          /\ AveragesOf(tournament_results[t], name)
          /\ ExactDamageAveragesOf(tournament_results[t].player_stats[name])

\* C16 for final.py alone, and for marvel_rivals_dashboard.py without the
\* three per-10 averages it rounds.
C16_AveragesFinal ==
    \A t \in DOMAIN tournament_results :
       \A name \in DOMAIN tournament_results[t].player_stats :
          /\ AveragesOf(tournament_results[t], name)
          /\ implementation = "final" =>
                ExactDamageAveragesOf(tournament_results[t].player_stats[name])

\* A finalized tournament of marvel_rivals_dashboard.py with a player whose
\* avg_damage_per_10 is not sum / total_minutes * 10.
C16_Witness ==
    /\ implementation = "dashboard"
    /\ \E t \in DOMAIN tournament_results :
          \E name \in DOMAIN tournament_results[t].player_stats :
             LET stats == tournament_results[t].player_stats[name]
             IN  /\ RPos(stats.total_minutes)
                 /\ stats.avg_damage_per_10 #
                       Per10Average(stats.total_damage, stats.total_minutes)
                 /\ stats.avg_damage_per_10.den = 1

\* The run was given the scenario feed and has resolved the two matches of
\* the first tournament with the reference player on the team side, winning
\* the first with 10 kills, 2 deaths, 3 assists in 600 s and losing the
\* second with 4 kills, 6 deaths, 1 assist in 900 s.
ScenarioResolved ==
    /\ Returned
    /\ data = ScenarioFeed
    /\ tournament_results # <<>>
    /\ Len(tournament_results[1].matches) = 2
    /\ \E p \in DOMAIN tournament_results[1].matches[1].team_stats :
          LET player == tournament_results[1].matches[1].team_stats[p]
          IN  /\ player.name = data.ign /\ player.result = "win"
              /\ Get(player, "kills", 0) = 10
              /\ Get(player, "deaths", 0) = 2
              /\ Get(player, "assists", 0) = 3
    /\ tournament_results[1].matches[1].duration_seconds = 600
    /\ \E p \in DOMAIN tournament_results[1].matches[2].team_stats :
          LET player == tournament_results[1].matches[2].team_stats[p]
          IN  /\ player.name = data.ign /\ player.result = "loss"
              /\ Get(player, "kills", 0) = 4
              /\ Get(player, "deaths", 0) = 6
              /\ Get(player, "assists", 0) = 1
    /\ tournament_results[1].matches[2].duration_seconds = 900

\* C17: the scenario feed (matches at hours 0, 1 and 31) gives two
\* tournaments of sizes 2 and 1, and the reference player's record in the
\* first aggregate has matches_played 2, wins 1, losses 1, win_rate 50,
\* avg_kills 7 and avg_kills_per_10 = (14 / 25) * 10 = 5.6.
C17_Scenario ==
    /\ (data = ScenarioFeed /\ pc \notin {"start", "cluster"}) =>
          /\ Len(tournaments_cluster) = 2
          /\ Len(tournaments_cluster[1]) = 2
          /\ Len(tournaments_cluster[2]) = 1
    /\ ScenarioResolved =>
          LET stats == tournament_results[1].player_stats[data.ign]
          IN  /\ Len(tournament_results) = 2
              /\ tournament_results[1].match_count = 2
              /\ tournament_results[2].match_count = 1
              /\ stats.matches_played = 2
              /\ stats.wins = 1
              /\ stats.losses = 1
              /\ stats.win_rate = RInt(50)
              /\ stats.avg_kills = RInt(7)
              /\ stats.avg_kills_per_10 = Rat(56, 10)

\* The scenario has been run to its end in detailed mode, every fetch
\* having failed.
C17_Witness ==
    /\ ScenarioResolved
    /\ detailed
    /\ Len(fetch_log) = 3
    /\ tournament_results[1].player_stats[data.ign].total_kills = 14

\* C18: a returned run has one aggregate per cluster, in cluster order; the
\* aggregate at position t (1-based) has id t, the timestamps of the first
\* and the last match of its cluster as start_date and end_date (start_date
\* not after end_date), the size of the cluster as match_count, and one
\* summary per match of the cluster, in the cluster's order of time.
C18_AggregatePerCluster ==
    Returned =>
        /\ Len(tournament_results) = Len(tournaments_cluster)
        /\ \A t \in DOMAIN tournament_results :
              LET aggregate == tournament_results[t]
                  cluster == tournaments_cluster[t]
              IN  /\ aggregate.id = t
                  /\ aggregate.start_date = cluster[1].timestamp
                  /\ aggregate.end_date = cluster[Len(cluster)].timestamp
                  /\ Instant(aggregate.start_date) <= Instant(aggregate.end_date)
                  /\ aggregate.match_count = Len(cluster)
                  /\ Len(aggregate.matches) = aggregate.match_count
                  /\ \A i \in DOMAIN aggregate.matches :
                        aggregate.matches[i].id = cluster[i].match_id
                  /\ \A i, j \in DOMAIN aggregate.matches :
                        i < j => FeedInstant(aggregate.matches[i].id)
                                    <= FeedInstant(aggregate.matches[j].id)

\* A returned run of two aggregates, the first of two matches at different
\* instants.
C18_Witness ==
    /\ Returned
    /\ Len(tournament_results) = 2
    /\ tournament_results[1].match_count = 2
    /\ Instant(tournament_results[1].start_date) < Instant(tournament_results[1].end_date)
    /\ tournament_results[2].id = 2
    /\ tournament_results[2].match_count = 1

\* The summaries recorded so far, in the returned aggregates and in the
\* aggregate being folded.
RecordedSummaries ==
    UNION {{aggregate.matches[i] : i \in DOMAIN aggregate.matches} :
              aggregate \in Aggregates}

\* C19: the result of a recorded summary is the result of the first
\* participant named as the reference player, looking through team_stats
\* and then opponent_stats; it is "Unknown" iff no participant of the match
\* has that name.
C19_MatchResult ==
    \A summary \in RecordedSummaries :
       LET players == summary.team_stats \o summary.opponent_stats
           named == {i \in DOMAIN players : players[i].name = data.ign}
       IN  /\ named # {} => summary.result = players[Least(named)].result
           /\ (summary.result = "Unknown") = (named = {})

\* A returned tournament with a summary without the reference player,
\* recorded as "Unknown", and a summary whose result is that of the
\* reference player found among the opponents, after another opponent.
C19_Witness ==
    /\ Returned
    /\ \E t \in DOMAIN tournament_results :
          \E i, j \in DOMAIN tournament_results[t].matches :
             LET unknown == tournament_results[t].matches[i]
                 found == tournament_results[t].matches[j]
             IN  /\ unknown.result = "Unknown"
                 /\ unknown.opponent_stats # <<>>
                 /\ found.result = "draw"
                 /\ found.team_stats # <<>>
                 /\ found.team_stats[1].name # data.ign
                 /\ \E k \in DOMAIN found.opponent_stats :
                       found.opponent_stats[k].name = data.ign

\* Position of the match `id` in the clusters read one after the other.
ResolutionRank(id) ==
    LET all == Flatten(tournaments_cluster)
    IN  CHOOSE k \in DOMAIN all : all[k].match_id = id

\* C20: resolution is sequential and without retry: no match is fetched
\* twice, the fetches are issued in the order of the clusters and, inside a
\* cluster, of the timestamps, the one fetch in progress is that of the
\* current match, and when the resolution of a match starts every earlier
\* match of its tournament is folded and recorded and every earlier
\* tournament is finalized.
C20_Sequential ==
    /\ \A i, j \in DOMAIN fetch_log :
          i < j => ResolutionRank(fetch_log[i]) < ResolutionRank(fetch_log[j])
    /\ pc = "fetch" =>
          /\ detailed
          /\ fetch_log # <<>>
          /\ fetch_log[Len(fetch_log)] = CurrentMatch.match_id
    /\ pc \in {"match", "fetch"} =>
          /\ Len(tournament_results) = idx - 1
          /\ Len(tournament_info.matches) = mpos - 1
          /\ \A i \in DOMAIN tournament_info.matches :
                tournament_info.matches[i].id = tournaments_cluster[idx][i].match_id
          /\ \A name \in DOMAIN tournament_info.player_stats :
                tournament_info.player_stats[name].matches_played =
                   Cardinality(TeamSideEntries(tournament_info, name))
          /\ \A i \in DOMAIN fetch_log :
                i < Len(fetch_log) \/ pc = "match" =>
                   ResolutionRank(fetch_log[i]) < ResolutionRank(CurrentMatch.match_id)

\* The fetch of the second match of a tournament is in progress after the
\* fetch of the first failed; the first match is folded and recorded.
C20_Witness ==
    /\ pc = "fetch"
    /\ mpos = 2
    /\ Len(fetch_log) = 2
    /\ Len(tournament_info.matches) = 1
    /\ tournament_info.matches[1].team_stats # <<>>
    /\ "is_mvp" \notin DOMAIN tournament_info.matches[1].team_stats[1]
    /\ tournament_info.player_stats # EmptyDict

(***************************************************************************)
(* Properties of the cache and of the fetches.                             *)
(***************************************************************************)
\* A step that passes one more id to fetch_detailed_match_data.
FetchIssued == Len(fetch_log') > Len(fetch_log)

\* Whether the cache holds a record for the match id.
CacheHolds(match_id) == cache_dir /\ match_id \in DOMAIN cache

\* Fetch is invoked in detailed mode, for the current match, after the
\* cache was found to hold no record for it.
FetchOnlyOnMiss ==
    FetchIssued =>
        /\ pc = "match" /\ pc' = "fetch"
        /\ detailed
        /\ fetch_log' = Append(fetch_log, CurrentMatch.match_id)
        /\ ~CacheHolds(CurrentMatch.match_id)
        /\ detailed_match' = NoRecord

\* The cache changes only when a fetch returns a record: that record is
\* written under the id of the fetched match; a failed fetch writes nothing.
CacheWrittenOnlyAfterSuccess ==
    /\ cache' # cache =>
          /\ pc = "fetch" /\ cache_dir
          /\ Truthy(detailed_match')
          /\ fetch_log # <<>>
          /\ fetch_log[Len(fetch_log)] = CurrentMatch.match_id
          /\ cache' = (CurrentMatch.match_id :> detailed_match') @@ cache
    /\ (pc = "fetch" /\ ~Truthy(detailed_match')) => cache' = cache
    /\ (pc = "fetch" /\ Truthy(detailed_match') /\ cache_dir) =>
          /\ CurrentMatch.match_id \in DOMAIN cache'
          /\ cache'[CurrentMatch.match_id] = detailed_match'

\* A miss raises nothing: in detailed mode the match is fetched, otherwise
\* it is processed by the fallback, which alone may raise.
MissIsNoError ==
    (pc = "match" /\ ~CacheHolds(CurrentMatch.match_id)) =>
        /\ detailed => pc' = "fetch" /\ error' = "none"
        /\ ~detailed =>
              /\ detailed_match' = NoRecord
              /\ error' # "none" => FallbackRaises(CurrentMatch)

\* In the second run no fetch is issued for a match whose fetch gave a
\* record in the first run.
SecondRunFetchesNothingFetched ==
    (run = 2 /\ cache_dir) =>
        \A i \in DOMAIN fetch_log :
           [run |-> 1, match_id |-> fetch_log[i]] \notin fetched

\* C21: the cache is queried before fetch: fetch is invoked only when the
\* cache holds no record for the match id, a record is written under that
\* id only after a successful fetch of it, a failed fetch leaves the cache
\* unchanged and a miss is no error; hence a second run over the same feed
\* and the cache left by the first issues no fetch for a match whose fetch
\* succeeded in the first run.
C21_CacheBeforeFetch ==
    /\ [][FetchOnlyOnMiss /\ CacheWrittenOnlyAfterSuccess /\ MissIsNoError]_vars
    /\ []SecondRunFetchesNothingFetched

\* A second run has returned over a feed of two matches: the fetch of one
\* succeeded in the first run and is not issued again, the fetch of the
\* other failed in the first run and is issued again.
C21_Witness ==
    /\ run = 2 /\ pc = "done" /\ detailed /\ cache_dir
    /\ Len(data.matches) = 2
    /\ \E i, j \in 1..2 :
          /\ i # j
          /\ [run |-> 1, match_id |-> i] \in fetched
          /\ [run |-> 1, match_id |-> j] \notin fetched
          /\ fetch_log = <<j>>
          /\ i \in DOMAIN cache

(***************************************************************************)
(* Properties of the run on missing data.                                  *)
(***************************************************************************)
\* The run ends normally, with one aggregate per cluster.
TerminatesNormally ==
    /\ pc # "raised"
    /\ error = "none"
    /\ pc = "done" => Len(tournament_results) = Len(tournaments_cluster)

\* C22: once the reference team is established (every summary of the feeds
\* carries its required keys), the run never aborts because of missing data:
\* whatever fetches fail, whatever the cache misses, whatever stats are absent
\* from the stats bags of detailed or overview segments, and whether the
\* reference player is in the match or not, it returns one aggregate per
\* cluster.
C22_NeverAbortsOnMissingData ==
    player_team # None => TerminatesNormally

\* C22, for the feeds whose overview segments carry the five stats the
\* fallback reads: there the run ends normally.
C22_CompleteOverviewBags ==
    (/\ player_team # None
     /\ \A i \in DOMAIN data.matches :
           data.matches[i].mode = "tournament" =>
              ~FallbackRaises(data.matches[i])) => TerminatesNormally

\* With detailed mode off, a match whose reference overview segment lacks
\* kdaRatio has ended the run with KeyError: no aggregate is returned.
C22_Witness ==
    /\ pc = "raised"
    /\ error = "KeyError"
    /\ ~detailed
    /\ fetch_log = <<>>
    /\ player_team # None
    /\ tournament_results = <<>>
    /\ \E i \in DOMAIN data.matches :
          \E j \in DOMAIN data.matches[i].segments :
             /\ data.matches[i].segments[j].type = "overview"
             /\ "kdaRatio" \notin DOMAIN data.matches[i].segments[j].stats

(***************************************************************************)
(* Properties of the score string and of malformed feeds.                  *)
(***************************************************************************)
\* The parsed match of the feed with the id of the summary.
ClusterMatch(id) ==
    LET at == {p \in OutPositions : OutAt(p).match_id = id}
    IN  OutAt(CHOOSE p \in at : TRUE)

\* The score string the pair `scores` gives for the reference team id t:
\* "<scores[t]>-<scores[1-t]>", as the pair of its numbers.
ScoreOfPair(scores, t) ==
    IF scores = <<>> THEN [na |-> "N/A"]
    ELSE [own |-> scores[t + 1], other |-> scores[(1 - t) + 1]]

\* Every recorded summary carries the score string of its match.
ScoresAsClaimed ==
    \A aggregate \in Aggregates :
       \A k \in DOMAIN aggregate.matches :
          LET summary == aggregate.matches[k]
          IN  summary.score =
                 ScoreOfPair(ClusterMatch(summary.id).scores, player_team)

\* C23: the score string of every match summary is built from the two-element
\* score pair of the match indexed by the reference team id t,
\* "<scores[t]>-<scores[1-t]>", for every reference team id the run accepts,
\* and is "N/A" when the match has no scores; building it never fails.
C23_ScoreString ==
    /\ error # "IndexError"
    /\ ScoresAsClaimed

\* C23, for the reference team ids 0 and 1: there the string is as claimed
\* and building it does not fail.
C23_ScoreStringTeams01 ==
    player_team \in {0, 1} => (error # "IndexError" /\ ScoresAsClaimed)

\* The run has ended with IndexError on a match with two scores, the
\* reference team id being 2; the match is folded but not recorded.
C23_Witness ==
    /\ pc = "raised"
    /\ error = "IndexError"
    /\ player_team = 2
    /\ Len(CurrentMatch.scores) = 2
    /\ tournament_info.matches = <<>>
    /\ "me" \in DOMAIN tournament_info.player_stats

\* Whether a tournament-mode match of the feed lacks a required key.
Malformed ==
    \E i \in DOMAIN data.matches :
       /\ data.matches[i].mode = "tournament"
       /\ ~(RequiredKeys \subseteq DOMAIN data.matches[i])

\* C24: if a tournament-mode match summary of the feed lacks a required key,
\* the whole run aborts: with KeyError at clustering time once the reference
\* team is found (with ValueError before, when it is not), no aggregate is
\* returned for any tournament, no cluster is kept, no driver is created
\* and no fetch is issued.
C24_MalformedAborts ==
    (Malformed /\ pc # "fetch_call" /\ pc # "fetch_done") =>
        /\ pc \in {"start", "cluster", "raised"}
        /\ pc = "raised" =>
              error = (IF player_team = None THEN "ValueError" ELSE "KeyError")
        /\ pc # "raised" => error = "none"
        /\ tournaments_cluster = <<>>
        /\ tournament_info = NoRecord
        /\ tournament_results = <<>>
        /\ fetch_log = <<>>
        /\ driver = "none" /\ driver_log = <<>>

\* A detailed run has aborted with KeyError at clustering time on a feed of
\* one well-formed tournament match and, two days later, one without scores.
C24_Witness ==
    /\ pc = "raised" /\ error = "KeyError"
    /\ detailed
    /\ player_team = 0
    /\ Len(data.matches) = 2
    /\ RequiredKeys \subseteq DOMAIN data.matches[1]
    /\ data.matches[1].mode = "tournament"
    /\ data.matches[1].timestamp.hour = 0
    /\ "scores" \notin DOMAIN data.matches[2]
    /\ data.matches[2].timestamp.hour = 48
    /\ tournament_results = <<>>
    /\ fetch_log = <<>>

(***************************************************************************)
(* Invariants of the fold.                                                 *)
(***************************************************************************)
\* The names of the participants of a list.
NamesOn(list) == {list[j].name : j \in DOMAIN list}

\* The handles of the list are all different.
HandlesOnce(list) == \A i, j \in DOMAIN list : list[i].name = list[j].name => i = j

\* C25: after any number of matches folded into a tournament, every player
\* record satisfies matches_played = wins + losses and matches_played >= 1,
\* and matches_played <= the number of matches folded so far when a handle
\* occurs at most once per match; the players with a record are those seen on
\* the team side of a folded match (a player seen among the opponents only
\* has none).
C25_FoldCounts ==
    \A aggregate \in Aggregates :
       LET folded == aggregate.matches
           on_team == UNION {NamesOn(folded[k].team_stats) : k \in DOMAIN folded}
           on_opp == UNION {NamesOn(folded[k].opponent_stats) : k \in DOMAIN folded}
       IN  /\ DOMAIN aggregate.player_stats = on_team
           /\ \A name \in on_opp \ on_team : name \notin DOMAIN aggregate.player_stats
           /\ \A name \in DOMAIN aggregate.player_stats :
                 LET stats == aggregate.player_stats[name]
                 IN  /\ stats.matches_played = stats.wins + stats.losses
                     /\ stats.matches_played >= 1
                     /\ stats.wins >= 0 /\ stats.losses >= 0
                     /\ (\A k \in DOMAIN folded : HandlesOnce(folded[k].team_stats))
                           => stats.matches_played <= Len(folded)
                     /\ stats.matches_played =
                           Cardinality(TeamSideEntries(aggregate, name))

\* Two matches are folded: a player of the team side of both has two
\* matches, one of them neither won nor lost by name ('draw'), and a player
\* seen among the opponents only has no record.
C25_Witness ==
    /\ pc = "finalize"
    /\ Len(tournament_info.matches) = 2
    /\ \E name \in DOMAIN tournament_info.player_stats :
          /\ tournament_info.player_stats[name].matches_played = 2
          /\ tournament_info.player_stats[name].wins = 1
          /\ tournament_info.player_stats[name].losses = 1
          /\ \E e \in TeamSideEntries(tournament_info, name) :
                EntryResult(tournament_info, e) = "draw"
    /\ \E k \in 1..2 :
          \E j \in DOMAIN tournament_info.matches[k].opponent_stats :
             tournament_info.matches[k].opponent_stats[j].name
                \notin DOMAIN tournament_info.player_stats

\* The sum of the field over the snapshots of a performance log.
RECURSIVE SumOfLog(_, _)
SumOfLog(log, field) ==
    IF log = <<>> THEN 0
    ELSE Head(log)[field] + SumOfLog(Tail(log), field)

\* The sum of duration / 60 over the matches of a performance log.
RECURSIVE MinutesOfLog(_)
MinutesOfLog(log) ==
    IF log = <<>> THEN RInt(0)
    ELSE RAdd(Rat(ClusterMatch(Head(log).match_id).duration, 60),
              MinutesOfLog(Tail(log)))

\* The heroes of the player in the matches it was folded in.
HeroesOfEntries(aggregate, name) ==
    UNION {LET heroes == aggregate.matches[e[1]].team_stats[e[2]].heroes
           IN  {heroes[h] : h \in DOMAIN heroes} :
              e \in TeamSideEntries(aggregate, name)}

\* C26: for every player, each running sum is the sum of the same field over
\* the player's performance log so far (kills, deaths, assists, solo kills,
\* last kills, head kills), total_minutes is the sum of duration / 60 over
\* the matches the player was folded in, and heroes_played is the union of
\* the player's heroes in those matches, never empty once matches_played >= 1.
C26_FoldSums ==
    \A aggregate \in Aggregates :
       \A name \in DOMAIN aggregate.player_stats :
          LET stats == aggregate.player_stats[name]
              log == stats.match_performances
          IN  /\ stats.total_kills = SumOfLog(log, "kills")
              /\ stats.total_deaths = SumOfLog(log, "deaths")
              /\ stats.total_assists = SumOfLog(log, "assists")
              /\ stats.total_solo_kills = SumOfLog(log, "solo_kills")
              /\ stats.total_last_kills = SumOfLog(log, "last_kills")
              /\ stats.total_head_kills = SumOfLog(log, "head_kills")
              /\ stats.total_minutes = MinutesOfLog(log)
              /\ Len(log) = stats.matches_played
              /\ stats.heroes_played = HeroesOfEntries(aggregate, name)
              /\ stats.matches_played >= 1 => stats.heroes_played # {}

\* Two matches of different durations are folded for the reference player,
\* one from a detailed record with two heroes (5 kills) and one from its
\* overview segment (4 kills, one of the two heroes): 9 kills, 25 minutes
\* and two heroes in all; an ally without hero has played "Unknown".
C26_Witness ==
    /\ pc = "finalize"
    /\ "me" \in DOMAIN tournament_info.player_stats
    /\ LET stats == tournament_info.player_stats["me"]
       IN  /\ stats.matches_played = 2
           /\ stats.total_kills = 9
           /\ stats.total_minutes = Rat(25, 1)
           /\ Cardinality(stats.heroes_played) = 2
           /\ "Unknown" \in tournament_info.player_stats["ally"].heroes_played

(***************************************************************************)
(* The side of the reference player.                                       *)
(***************************************************************************)
\* In the recorded summary the reference player is on the team side only,
\* and the match is in its performance log.
ReferenceFolded(aggregate, summary) ==
    /\ data.ign \in NamesOn(summary.team_stats)
    /\ data.ign \notin NamesOn(summary.opponent_stats)
    /\ data.ign \in DOMAIN aggregate.player_stats
    /\ \E p \in DOMAIN aggregate.player_stats[data.ign].match_performances :
          aggregate.player_stats[data.ign].match_performances[p].match_id
             = summary.id

\* Whether the summary was resolved by the fallback (its records carry the
\* fallback fields only).
ByFallback(summary) ==
    \A list \in {summary.team_stats, summary.opponent_stats} :
       \A j \in DOMAIN list : DOMAIN list[j] = FallbackFields

\* C27: in every recorded summary whose result is not "Unknown", the
\* reference player is in team_stats, not in opponent_stats, and is folded
\* into the player stats for that match, on the detailed path and on the
\* fallback path, also when its team id in the match differs from the
\* reference team id of the run.
C27_ReferenceOnTeamSide ==
    \A aggregate \in Aggregates :
       \A k \in DOMAIN aggregate.matches :
          aggregate.matches[k].result # "Unknown" =>
             ReferenceFolded(aggregate, aggregate.matches[k])

\* C27, when a summary resolved by the fallback has the reference player on
\* the reference team of the run: there the player is on the team side and
\* folded.
C27_ReferenceOnReferenceTeam ==
    \A aggregate \in Aggregates :
       \A k \in DOMAIN aggregate.matches :
          LET summary == aggregate.matches[k]
          IN  (/\ summary.result # "Unknown"
               /\ ByFallback(summary) =>
                     MatchReferenceTeam(data.matches[summary.id]) = player_team)
              => ReferenceFolded(aggregate, summary)

\* A returned aggregate of one match resolved by the fallback: the reference
\* team of the run is 0 (from a match of another tournament), the reference
\* player is on team 1 in this match; the result is its 'draw', it is in
\* opponent_stats and has no record in the player stats.
C27_Witness ==
    /\ pc = "done"
    /\ player_team = 0
    /\ \E t \in DOMAIN tournament_results :
          LET aggregate == tournament_results[t]
          IN  /\ Len(aggregate.matches) = 1
              /\ aggregate.matches[1].result = "draw"
              /\ ByFallback(aggregate.matches[1])
              /\ MatchReferenceTeam(data.matches[aggregate.matches[1].id]) = 1
              /\ data.ign \in NamesOn(aggregate.matches[1].opponent_stats)
              /\ data.ign \notin DOMAIN aggregate.player_stats

(***************************************************************************)
(* The lifecycle of the browser drivers.                                   *)
(***************************************************************************)
CreatedByRun == <<[op |-> "create", driver |-> "run"]>>

QuitByRun == <<[op |-> "quit", driver |-> "run"]>>

TemporaryDriver ==
    <<[op |-> "create", driver |-> "temporary"],
      [op |-> "quit", driver |-> "temporary"]>>

\* C28: a run of analyze_tournaments in detailed mode creates one driver
\* after the clustering and quits it exactly once, when it returns or when an
\* exception leaves the loop; it creates none when the precondition or the
\* clustering fails, nor with detailed mode off.  A call of
\* fetch_detailed_match_data creates and quits a driver of its own iff its
\* driver argument is None, and never quits the driver it was given, whether
\* it returns a record or None.
C28_DriverLifecycle ==
    /\ \A i \in DOMAIN driver_log :
          driver_log[i] # [op |-> "quit", driver |-> "argument"]
    /\ pc \in {"start", "cluster"} => driver_log = <<>> /\ driver = "none"
    /\ (pc = "raised" /\ idx = 0) =>
          /\ error \in {"ValueError", "KeyError"}
          /\ driver_log = <<>> /\ driver = "none"
    /\ pc \in {"tournament", "match", "fetch", "finalize", "return"} =>
          IF detailed
          THEN driver_log = CreatedByRun /\ driver = "open"
          ELSE driver_log = <<>> /\ driver = "none"
    /\ (pc \in {"done", "raised"} /\ idx >= 1) =>
          IF detailed
          THEN driver_log = CreatedByRun \o QuitByRun /\ driver = "quit"
          ELSE driver_log = <<>> /\ driver = "none"
    /\ pc = "fetch_call" => driver_log = <<>>
    /\ pc = "fetch_done" =>
          IF driver = "none"
          THEN driver_log = TemporaryDriver
          ELSE driver_log = <<>> /\ driver = "open"

\* A detailed run has propagated KeyError from the loop after a fetch that
\* gave no record, made with the driver of the run: the driver was created
\* once and quit once, by the run.
C28_Witness ==
    /\ pc = "raised" /\ error = "KeyError"
    /\ idx >= 1
    /\ fetch_log # <<>>
    /\ detailed_match = NoRecord
    /\ driver = "quit"
    /\ driver_log = CreatedByRun \o QuitByRun

(***************************************************************************)
(* Runs with detailed mode off.                                            *)
(***************************************************************************)
\* The lists and the error a match gives when it is resolved with the record
\* `record` of the cache (None when the cache holds none).
ResolvedFrom(record) ==
    IF Truthy(record)
    THEN /\ team_stats' = extract_player_stats(record, data.ign).team
         /\ opponent_stats' = extract_player_stats(record, data.ign).opp
         /\ error' = "none"
    ELSE IF FallbackRaises(CurrentMatch)
         THEN error' = "KeyError" /\ pc' = "return"
         ELSE /\ team_stats' = Fallback(CurrentMatch, player_team).team
              /\ opponent_stats' = Fallback(CurrentMatch, player_team).opp
              /\ error' = "none"

\* C29: with detailed mode off, the run never invokes fetch, creates no
\* driver and never writes to the cache; a match is resolved from its cached
\* detailed record when the cache holds one and by the fallback extraction
\* otherwise.
C29_DetailedOff ==
    /\ [](~detailed => fetch_log = <<>> /\ pc # "fetch" /\ driver = "none")
    /\ [][~detailed =>
             /\ cache' = cache
             /\ fetched' = fetched
             /\ pc = "match" =>
                   /\ detailed_match' =
                         (IF CacheHolds(CurrentMatch.match_id)
                          THEN cache[CurrentMatch.match_id] ELSE NoRecord)
                   /\ ResolvedFrom(detailed_match')]_vars

\* A run with detailed mode off over a cache holding the record of match 1
\* has returned: match 1 was resolved from the cached record (its lists carry
\* the fields of a detailed record), match 2 by the fallback.
C29_Witness ==
    /\ pc = "done" /\ ~detailed /\ cache_dir
    /\ 1 \in DOMAIN cache /\ 2 \notin DOMAIN cache
    /\ Len(tournament_results) = 1
    /\ Len(tournament_results[1].matches) = 2
    /\ \E k, l \in 1..2 :
          /\ tournament_results[1].matches[k].id = 1
          /\ ~ByFallback(tournament_results[1].matches[k])
          /\ tournament_results[1].matches[l].id = 2
          /\ ByFallback(tournament_results[1].matches[l])
          /\ tournament_results[1].matches[l].team_stats # <<>>

(***************************************************************************)
(* The two copies of the engine.                                           *)
(***************************************************************************)
\* The aggregate as final.py and as marvel_rivals_dashboard.py finalize it.
FinalAggregate(info) ==
    [info EXCEPT !.player_stats =
        [name \in DOMAIN info.player_stats |-> FinalizeStats(info.player_stats[name])]]

DashboardAggregate(info) ==
    [info EXCEPT !.player_stats =
        [name \in DOMAIN info.player_stats |->
            DashboardFinalizeStats(info.player_stats[name])]]

RoundedKeys == {"avg_damage_per_10", "avg_healing_per_10", "avg_damage_taken_per_10"}

\* C30: final.py and marvel_rivals_dashboard.py are equivalent: on the same
\* feed, cache and fetch results they return the same clusters, the same
\* team and opponent stats and the same aggregates, field by field,
\* including every finalized per-10-minute average.
C30_Equivalent ==
    pc = "finalize" =>
        FinalAggregate(tournament_info) = DashboardAggregate(tournament_info)

\* C30, leaving out the per-10-minute averages of damage, healing and
\* damage taken: the two copies finalize every other field alike.
C30_EquivalentButRounded ==
    pc = "finalize" =>
        \A name \in DOMAIN tournament_info.player_stats :
           LET final == FinalizeStats(tournament_info.player_stats[name])
               dashboard == DashboardFinalizeStats(tournament_info.player_stats[name])
           IN  /\ DOMAIN final = DOMAIN dashboard
               /\ \A key \in DOMAIN final \ RoundedKeys : final[key] = dashboard[key]
               /\ \A key \in DOMAIN final \cap RoundedKeys :
                     dashboard[key] = RRound(final[key])

\* marvel_rivals_dashboard.py has returned an aggregate whose reference
\* player has 400 damage in 15 minutes: its avg_damage_per_10 is 267, where
\* final.py gives 800/3.
C30_Witness ==
    /\ pc = "done"
    /\ implementation = "dashboard"
    /\ \E t \in DOMAIN tournament_results :
          /\ "me" \in DOMAIN tournament_results[t].player_stats
          /\ LET stats == tournament_results[t].player_stats["me"]
             IN  /\ stats.total_damage = 400
                 /\ stats.total_minutes = Rat(15, 1)
                 /\ stats.avg_damage_per_10 = RInt(267)
                 /\ Per10Average(stats.total_damage, stats.total_minutes) = Rat(800, 3)

====
